---- MODULE Spec2Model ----
(***************************************************************************)
(* Stem-processing backend of riff_room_v2: the upload route, the          *)
(* background job (_process_with_progress / DemucsProcessor.process_song), *)
(* the cancellation route and the WebSocket ConnectionManager, run by one  *)
(* asyncio event loop plus executor threads.                               *)
(*                                                                         *)
(* The event loop is the FIFO queue `ready`: a coroutine runs from one     *)
(* suspension point to the next as one action; executor threads            *)
(* (run_in_executor) run beside it and wake their task by appending to     *)
(* `ready`.  HTTP and WebSocket requests arrive at any moment.             *)
(*                                                                         *)
(* Three specifications share the variables:                               *)
(*   Spec      - uploads, jobs, cancellation and their WebSocket traffic;  *)
(*   CacheSpec - the CacheManager driven through set/get/exists/remove;    *)
(*   ConnSpec  - the ConnectionManager driven through its methods.         *)
(***************************************************************************)
EXTENDS Integers, Sequences, FiniteSets, TLC

\* ---------------------------------------------------------------- bounds
MaxJobs == 2        \* uploads (client ids are fresh uuids, one per upload)
MaxPrints == 2      \* distinct file contents (fingerprints)
MaxConnects == 1    \* WebSocket connects per run
MaxFaults == 1      \* injected I/O / compute / transport failures per run
MaxCancels == 1     \* cancellation requests per run
MaxKeys == 3        \* distinct cache keys handed to the CacheManager
MaxCalls == 4       \* CacheManager / ConnectionManager calls per run
MaxTime == 2        \* clock ticks per run
MaxSets == 2        \* set calls of the two threads together

\* ------------------------------------------------------ program constants
MAX_FILE_SIZE == 100 * 1024 * 1024
\* CacheManager(temp_cache_dir, max_size_mb=10)
max_size_mb == 10
\* ConnectionManager.__init__: seconds before a connection is stale
stale_timeout == 300
\* timedelta(days=1) in seconds
SecondsPerDay == 24 * 60 * 60

Clients == 1..MaxJobs
Fingerprints == 1..MaxPrints

\* stems.items() order of the separator output; _check_cache's stem_types
StemOrder == <<"drums", "bass", "other", "vocals">>
stem_types == {"drums", "bass", "other", "vocals"}

AllowedTypes == {"audio/mpeg", "audio/mp3", "audio/wav", "audio/x-wav",
                 "audio/mp4", "audio/m4a"}
\* inputs of the upload route
ContentTypes == {"audio/mpeg", "text/plain"}
Sizes == {MAX_FILE_SIZE, MAX_FILE_SIZE + 1}

NoStems == [s \in {} |-> 0]

\* messages of the exceptions the separator can raise
SeparationErrors == {"CUDA out of memory", "Invalid audio data"}

\* paths of the files handed to the hash functions
Paths == {"/tmp/riffroom/1_song.mp3", "/tmp/riffroom/2_copy.wav"}

\* no upload received yet
NoUpload == [client |-> 0, ctype |-> "", size |-> 0, status |-> 0]

\* empty cache root; no call made yet
NoEntries == [k \in {} |-> 0]
NoMsg == [type |-> "none", progress |-> 0, status |-> "", cause |-> "", stems |-> NoStems]
NoCall == [op |-> "none", key |-> 0, val |-> "none", arts |-> {}, size |-> 0,
           count |-> 0, digest |-> << >>, at |-> 0, io |-> "none", msg |-> NoMsg]

VARIABLES
    files,               \* cache root: [fingerprint -> [stem -> absent|partial|full]]
    dirs,                \* fingerprints whose cache directory exists
    temp,                \* temporary input file of each upload: none|present|removed
    unlinks,             \* number of unlink() calls that removed the temp file
    fp,                  \* file_hash of each upload's content
    pc,                  \* position of each upload / background task
    flag,                \* the asyncio.Event of each job (is_set)
    _cancellation_events, \* client ids with an entry in the dict
    _processing_tasks,   \* client ids whose task is in the set
    ready,               \* event loop ready queue (FIFO)
    active_connections,  \* client id -> transport id (0: not registered)
    nconn,               \* WebSocket connects accepted so far
    sent,                \* per client id: messages written to a transport
    emitted,             \* per job: events produced toward the channel, in order
    dispatched,          \* per job: _run_separation was handed to the executor
    wrote,               \* per job: number of torchaudio.save calls started
    cacheCheck,          \* per job: result of _check_cache: none|hit|miss
    saveIdx,             \* per job: index in StemOrder of the stem being saved
    cancel_result,       \* response of the last cancel request
    uploaded,            \* uploads received so far
    faults,              \* failures injected so far
    cancels,             \* cancel requests so far
    exc,                 \* per job: message of the exception raised inside process_song
    connection_timestamps, \* client id -> time of last activity (NoTs: no entry)
    now,                 \* time.time()
    cache_dir,           \* CacheManager root: cache key -> entry directory
    ret,                 \* the last CacheManager / ConnectionManager call and its result
    ncalls,              \* CacheManager / ConnectionManager calls made so far
    upload_result,       \* the last upload request and the response it got
    _cleanup_task,       \* ConnectionManager._cleanup_task: none|sleeping|done
    sweepers,            \* number of _periodic_cleanup tasks that have not ended
    cycle,               \* parity of the number of sweep cycles run so far
    path_bytes,          \* files handed to the hash functions: path -> bytes
    suspended,           \* ConnectionManager coroutines suspended on an await
    threads              \* CacheManager.set calls in progress, one per thread

vars == <<files, dirs, temp, unlinks, fp, pc, flag, _cancellation_events,
          _processing_tasks, ready, active_connections, nconn, sent, emitted,
          dispatched, wrote, cacheCheck, saveIdx, cancel_result,
          uploaded, faults, cancels, exc, connection_timestamps, now,
          cache_dir, ret, ncalls, upload_result, _cleanup_task, sweepers, cycle,
          path_bytes, suspended, threads>>

\* ---------------------------------------------------------------- helpers
UsedPrints == {fp[c] : c \in 1..uploaded}
\* a new upload has the content of an earlier one or the next unseen content
NextPrints == {f \in Fingerprints : f = 1 \/ f \in UsedPrints \/ (f - 1) \in UsedPrints}

ProgressMsg(progress, status) ==
    [type |-> "progress", progress |-> progress, status |-> status, cause |-> "",
     stems |-> NoStems]
CompleteMsg(stems) ==
    [type |-> "complete", progress |-> 0, status |-> "", cause |-> "", stems |-> stems]
\* error is the text built by the caller, cause the str(e) interpolated into it
ErrorMsg(error, cause) ==
    [type |-> "error", progress |-> 0, status |-> error, cause |-> cause,
     stems |-> NoStems]

TaskItem(c) == [kind |-> "task", client |-> c, progress |-> 0, status |-> ""]
ProgressItem(c, progress, status) ==
    [kind |-> "progress", client |-> c, progress |-> progress, status |-> status]
CleanupItem(c) == [kind |-> "cleanup", client |-> c, progress |-> 0, status |-> ""]

Terminal == {"completed", "cancelled", "failed", "crashed"}

\* an injected failure is drawn only while the budget lasts
Outcomes == IF faults < MaxFaults THEN BOOLEAN ELSE {TRUE}
Charge(ok) == faults' = IF ok THEN faults ELSE faults + 1

\* variant: the stems are looked up in the cache root, where none ever is
_check_cache_root(f) == FALSE

\* DemucsProcessor._check_cache: every stem file exists (whatever its content)
_check_cache(f) == \A s \in stem_types : files[f][s] # "absent"

\* DemucsProcessor._get_stem_paths: stem type -> path under the cache directory
_get_stem_paths(f) == [s \in stem_types |-> <<f, s>>]

\* threads that call CacheManager.set on one instance
Threads == {1, 2}

\* a thread that is not inside set
NoSource == [files |-> << >>, atime |-> 0, mtime |-> 0]
Idle == [at |-> "idle", key |-> 0, src |-> NoSource, todo |-> {}]

\* no entry in connection_timestamps
NoTs == -1

\* ConnectionManager.disconnect applied to active_connections
disconnect(conns, c) == [conns EXCEPT ![c] = 0]
\* variant: the timestamp of a removed connection is left behind
disconnect_ts_kept(stamps, c) == stamps

\* ConnectionManager.disconnect applied to connection_timestamps
disconnect_ts(stamps, c) == [stamps EXCEPT ![c] = NoTs]

\* variant: the message is written without looking the client id up first
SendJson_unchecked(c, m, ok, refresh) ==
    IF ok
    THEN /\ sent' = [sent EXCEPT ![c] = Append(@, m)]
         /\ connection_timestamps' =
               IF refresh THEN [connection_timestamps EXCEPT ![c] = now]
                          ELSE connection_timestamps
         /\ UNCHANGED active_connections
    ELSE /\ active_connections' = disconnect(active_connections, c)
         /\ connection_timestamps' = disconnect_ts(connection_timestamps, c)
         /\ UNCHANGED sent

\* The three sends of ConnectionManager: no subscriber -> no-op; send_json
\* succeeds -> the message is on the transport (and, when refresh is set, the
\* timestamp is renewed); send_json raises -> disconnect.
SendJson(c, m, ok, refresh) ==
    IF active_connections[c] # 0
    THEN IF ok
         THEN /\ sent' = [sent EXCEPT ![c] = Append(@, m)]
              /\ connection_timestamps' =
                    IF refresh THEN [connection_timestamps EXCEPT ![c] = now]
                               ELSE connection_timestamps
              /\ UNCHANGED active_connections
         ELSE /\ active_connections' = disconnect(active_connections, c)
              /\ connection_timestamps' = disconnect_ts(connection_timestamps, c)
              /\ UNCHANGED sent
    ELSE UNCHANGED <<sent, active_connections, connection_timestamps>>

\* only send_progress updates connection_timestamps after a successful send
send_progress(c, progress, status, ok) ==
    SendJson(c, ProgressMsg(progress, status), ok, TRUE)

\* variant: the completion is written to whichever transport comes first
send_completion_first(c, result, ok) ==
    SendJson(CHOOSE d \in Clients : \A e \in Clients : d <= e,
             CompleteMsg(result), ok, FALSE)

send_completion(c, result, ok) == SendJson(c, CompleteMsg(result), ok, FALSE)
send_error(c, error, cause, ok) == SendJson(c, ErrorMsg(error, cause), ok, FALSE)

\* a send can only fail when there is a transport to fail on
SendOutcomes(c) == IF active_connections[c] # 0 THEN Outcomes ELSE {TRUE}

\* variant: every connect creates a sweep task
create_needed_always(task) == TRUE

\* connect: "if self._cleanup_task is None or self._cleanup_task.done()"
create_needed(task) == task \in {"none", "done"}

\* connect: asyncio.create_task(self._periodic_cleanup()) when needed
start_cleanup ==
    /\ _cleanup_task' = IF create_needed(_cleanup_task) THEN "sleeping" ELSE _cleanup_task
    /\ sweepers' = IF create_needed(_cleanup_task) THEN sweepers + 1 ELSE sweepers

\* ------------------------------------------------------------------- Init
Init ==
    /\ files = [f \in Fingerprints |-> [s \in stem_types |-> "absent"]]
    /\ dirs = {}
    /\ temp = [c \in Clients |-> "none"]
    /\ unlinks = [c \in Clients |-> 0]
    /\ fp = [c \in Clients |-> 1]
    /\ pc = [c \in Clients |-> "new"]
    /\ flag = [c \in Clients |-> FALSE]
    /\ _cancellation_events = {}
    /\ _processing_tasks = {}
    /\ ready = <<>>
    /\ active_connections = [c \in Clients |-> 0]
    /\ nconn = 0
    /\ sent = [c \in Clients |-> <<>>]
    /\ emitted = [c \in Clients |-> <<>>]
    /\ dispatched = [c \in Clients |-> FALSE]
    /\ wrote = [c \in Clients |-> 0]
    /\ cacheCheck = [c \in Clients |-> "none"]
    /\ saveIdx = [c \in Clients |-> 0]
    /\ cancel_result = [client |-> 0, status |-> "none"]
    /\ uploaded = 0
    /\ faults = 0
    /\ cancels = 0
    /\ exc = [c \in Clients |-> ""]
    /\ connection_timestamps = [c \in Clients |-> NoTs]
    /\ now = 0
    /\ cache_dir = NoEntries
    /\ ret = NoCall
    /\ ncalls = 0
    /\ upload_result = NoUpload
    /\ _cleanup_task = "none"
    /\ sweepers = 0
    /\ cycle = 0
    /\ path_bytes = [p \in Paths |-> <<>>]
    /\ suspended = {}
    /\ threads = [t \in Threads |-> Idle]

jobVars == <<files, dirs, temp, unlinks, fp, pc, emitted, dispatched, wrote,
             cacheCheck, saveIdx, uploaded, exc, upload_result>>
cancelVars == <<flag, _cancellation_events, cancel_result, cancels>>
connVars == <<active_connections, connection_timestamps, nconn, sent, _cleanup_task, sweepers>>
\* state of the CacheManager and of the call record: no route touches it
apiVars == <<now, cache_dir, ret, ncalls, cycle, path_bytes, suspended, threads>>

\* ----------------------------------------------------------------- routes
\* variant: the size check refuses a payload of MAX_FILE_SIZE bytes as well
upload_status_strict(ctype, size) ==
    IF ctype \notin AllowedTypes THEN 400
    ELSE IF size >= MAX_FILE_SIZE THEN 413
    ELSE 0

\* process_audio: the checks made before anything is written, in their
\* order; 0 stands for "passed on to the temporary file and the validation"
upload_status(ctype, size) ==
    IF ctype \notin AllowedTypes THEN 400
    ELSE IF size > MAX_FILE_SIZE THEN 413
    ELSE 0

Upload(c, ctype, size, status) ==
    [client |-> c, ctype |-> ctype, size |-> size, status |-> status]

\* process_audio, up to the await of the audio validation: content-type and
\* size checks, fresh client id, temporary file written.
process_audio(ctype, size, f, ok) ==
    LET c == uploaded + 1 IN
    /\ uploaded < MaxJobs
    /\ uploaded' = c
    /\ Charge(ok)
    /\ IF upload_status(ctype, size) # 0
       THEN /\ ok
            /\ pc' = [pc EXCEPT ![c] = "rejected"]
            /\ upload_result' = Upload(c, ctype, size, upload_status(ctype, size))
            /\ UNCHANGED <<temp, unlinks, fp>>
       ELSE IF ok
       THEN /\ temp' = [temp EXCEPT ![c] = "present"]
            /\ fp' = [fp EXCEPT ![c] = f]
            /\ pc' = [pc EXCEPT ![c] = "validating"]
            /\ upload_result' = Upload(c, ctype, size, upload_status(ctype, size))
            /\ UNCHANGED unlinks
       ELSE \* the write raises: except Exception removes the file it created
            /\ temp' = [temp EXCEPT ![c] = "removed"]
            /\ unlinks' = [unlinks EXCEPT ![c] = @ + 1]
            /\ pc' = [pc EXCEPT ![c] = "rejected"]
            /\ upload_result' = Upload(c, ctype, size, 500)
            /\ UNCHANGED fp
    /\ UNCHANGED <<files, dirs, emitted, dispatched, wrote, cacheCheck, saveIdx,
                   _processing_tasks, ready>>
    /\ UNCHANGED cancelVars
    /\ UNCHANGED connVars
    /\ UNCHANGED exc
    /\ UNCHANGED apiVars

\* process_audio after _validate_audio_file returned from the executor:
\* invalid audio -> temp file removed, HTTP 400; valid -> cancellation event
\* registered, background task created and tracked.
process_audio_validated(c, valid) ==
    /\ pc[c] = "validating"
    /\ IF valid
       THEN /\ _cancellation_events' = _cancellation_events \cup {c}
            /\ _processing_tasks' = _processing_tasks \cup {c}
            /\ ready' = Append(ready, TaskItem(c))
            /\ pc' = [pc EXCEPT ![c] = "created"]
            /\ UNCHANGED <<temp, unlinks>>
       ELSE /\ temp' = [temp EXCEPT ![c] = IF @ = "present" THEN "removed" ELSE @]
            /\ unlinks' = [unlinks EXCEPT ![c] = IF temp[c] = "present" THEN @ + 1 ELSE @]
            /\ pc' = [pc EXCEPT ![c] = "rejected"]
            /\ UNCHANGED <<_cancellation_events, _processing_tasks, ready>>
    /\ UNCHANGED <<files, dirs, fp, emitted, dispatched, wrote, cacheCheck,
                   saveIdx, uploaded, faults>>
    /\ UNCHANGED <<flag, cancel_result, cancels>>
    /\ UNCHANGED connVars
    /\ UNCHANGED <<exc, upload_result>>
    /\ UNCHANGED apiVars

\* cancel_processing: 404 when the dict has no entry, else event.set()
cancel_processing(c) ==
    /\ cancels < MaxCancels
    /\ cancels' = cancels + 1
    /\ IF c \notin _cancellation_events
       THEN /\ cancel_result' = [client |-> c, status |-> "not_found"]
            /\ UNCHANGED flag
       ELSE /\ flag' = [flag EXCEPT ![c] = TRUE]
            /\ cancel_result' = [client |-> c, status |-> "cancelled"]
    /\ UNCHANGED <<_cancellation_events, _processing_tasks, ready, faults>>
    /\ UNCHANGED jobVars
    /\ UNCHANGED connVars
    /\ UNCHANGED apiVars

\* variant: the done callback forgets the task and keeps the event
cleanup_task_keeps_event(c) ==
    /\ ready # <<>>
    /\ Head(ready) = CleanupItem(c)
    /\ ready' = Tail(ready)
    /\ _processing_tasks' = _processing_tasks \ {c}
    /\ UNCHANGED <<_cancellation_events, flag, cancel_result, cancels, faults>>
    /\ UNCHANGED jobVars
    /\ UNCHANGED connVars
    /\ UNCHANGED apiVars

\* process_audio.cleanup_task, the task's done callback, run by the loop
cleanup_task(c) ==
    /\ ready # <<>>
    /\ Head(ready) = CleanupItem(c)
    /\ ready' = Tail(ready)
    /\ _processing_tasks' = _processing_tasks \ {c}
    /\ _cancellation_events' = _cancellation_events \ {c}
    /\ UNCHANGED <<flag, cancel_result, cancels, faults>>
    /\ UNCHANGED jobVars
    /\ UNCHANGED connVars
    /\ UNCHANGED apiVars

\* ------------------------------------------------------ ConnectionManager
\* websocket_endpoint -> manager.connect: accept and register the transport.
\* The client id is known to the client once process_audio has answered.
connect(c) ==
    /\ pc[c] \notin {"new", "validating", "rejected"}
    /\ nconn < MaxConnects
    /\ nconn' = nconn + 1
    /\ active_connections' = [active_connections EXCEPT ![c] = nconn + 1]
    /\ connection_timestamps' = [connection_timestamps EXCEPT ![c] = now]
    /\ start_cleanup
    /\ UNCHANGED <<sent, _processing_tasks, ready, faults>>
    /\ UNCHANGED jobVars
    /\ UNCHANGED cancelVars
    /\ UNCHANGED apiVars

\* websocket_endpoint: WebSocketDisconnect (or receive error) -> manager.disconnect
ws_disconnect(c) ==
    /\ active_connections[c] # 0
    /\ active_connections' = disconnect(active_connections, c)
    /\ connection_timestamps' = disconnect_ts(connection_timestamps, c)
    /\ UNCHANGED <<_cleanup_task, sweepers, nconn, sent, _processing_tasks, ready, faults>>
    /\ UNCHANGED jobVars
    /\ UNCHANGED cancelVars
    /\ UNCHANGED apiVars

\* a send_progress coroutine scheduled by run_coroutine_threadsafe runs
run_send_progress(c, ok) ==
    /\ ready # <<>>
    /\ Head(ready).kind = "progress"
    /\ Head(ready).client = c
    /\ ready' = Tail(ready)
    /\ Charge(ok)
    /\ send_progress(c, Head(ready).progress, Head(ready).status, ok)
    /\ UNCHANGED <<nconn, _processing_tasks, _cleanup_task, sweepers>>
    /\ UNCHANGED jobVars
    /\ UNCHANGED cancelVars
    /\ UNCHANGED apiVars

\* variant: the coroutine is scheduled at the front of the ready queue
progress_callback_front(q, c, progress, status) ==
    <<ProgressItem(c, progress, status)>> \o q

\* ------------------------------- _process_with_progress / process_song
\* progress_callback: run_coroutine_threadsafe(manager.send_progress(...), loop)
progress_callback(q, c, progress, status) == Append(q, ProgressItem(c, progress, status))

Emit(c, msgs) == emitted' = [emitted EXCEPT ![c] = @ \o msgs]

\* variant: process_song is called without cancellation_event (None)
is_set_none(c) == FALSE

\* asyncio.Event.is_set on the job's cancellation event
is_set(c) == flag[c]

\* variant: the temp file is removed by the handlers of the expected
\* outcomes instead of a finally clause
Finally_handled_only(c, outcome, q) ==
    /\ temp' = [temp EXCEPT ![c] = IF @ = "present" /\ outcome # "crashed"
                                   THEN "removed" ELSE @]
    /\ unlinks' = [unlinks EXCEPT ![c] = IF temp[c] = "present" /\ outcome # "crashed"
                                         THEN @ + 1 ELSE @]
    /\ pc' = [pc EXCEPT ![c] = outcome]
    /\ ready' = Append(q, CleanupItem(c))

\* the finally clause of _process_with_progress, the end of the task and the
\* scheduling of its done callback
Finally(c, outcome, q) ==
    /\ temp' = [temp EXCEPT ![c] = IF @ = "present" THEN "removed" ELSE @]
    /\ unlinks' = [unlinks EXCEPT ![c] = IF temp[c] = "present" THEN @ + 1 ELSE @]
    /\ pc' = [pc EXCEPT ![c] = outcome]
    /\ ready' = Append(q, CleanupItem(c))

\* variant: a transport error of send_completion propagates into the task
ReturnStems_raising(c, status, ok) ==
    /\ Emit(c, <<ProgressMsg(100, status), CompleteMsg(_get_stem_paths(fp[c]))>>)
    /\ send_completion(c, _get_stem_paths(fp[c]), ok)
    /\ Finally(c, IF ok THEN "completed" ELSE "crashed",
               progress_callback(Tail(ready), c, 100, status))

\* _process_with_progress: process_song returned the stem paths after
\* progress_callback(100, status); send_completion is awaited directly
ReturnStems(c, status, ok) ==
    /\ Emit(c, <<ProgressMsg(100, status), CompleteMsg(_get_stem_paths(fp[c]))>>)
    /\ send_completion(c, _get_stem_paths(fp[c]), ok)
    /\ Finally(c, "completed", progress_callback(Tail(ready), c, 100, status))

\* _process_with_progress: except CancellationError -> send_error
RaiseCancellationError(c, ok) ==
    /\ Emit(c, <<ErrorMsg("Processing cancelled", "")>>)
    /\ send_error(c, "Processing cancelled", "", ok)
    /\ Finally(c, "cancelled", Tail(ready))

\* variant: the client is told that processing failed, without the cause
RaiseProcessingError_generic(c, ok) ==
    /\ Emit(c, <<ErrorMsg("Stem separation failed", "")>>)
    /\ send_error(c, "Stem separation failed", "", ok)
    /\ Finally(c, "failed", Tail(ready))

\* process_song wraps the exception in ProcessingError("Stem separation
\* failed: {e}"); _process_with_progress: except ProcessingError -> send_error
RaiseProcessingError(c, ok) ==
    /\ Emit(c, <<ErrorMsg("Stem separation failed", exc[c])>>)
    /\ send_error(c, "Stem separation failed", exc[c], ok)
    /\ Finally(c, "failed", Tail(ready))

\* variant: one more cancellation checkpoint after _save_stems
process_song_return_checked(c, ok) ==
    IF is_set(c) THEN RaiseCancellationError(c, ok)
                 ELSE ReturnStems(c, "Complete", ok)

\* process_song lines 132-136: after _save_stems nothing is checked any more
process_song_return(c, ok) == ReturnStems(c, "Complete", ok)

\* variant: single flight, a job waits at its cache check while another job
\* with the same fingerprint has the separation running
Resumes_single_flight(c, at) ==
    /\ ready # <<>> /\ Head(ready) = TaskItem(c) /\ pc[c] = at
    /\ at = "hash_ok" =>
          ~\E d \in Clients \ {c} : fp[d] = fp[c] /\ pc[d] = "separating"

\* the loop resumes the task of c, which awaits at `at`
Resumes(c, at) == ready # <<>> /\ Head(ready) = TaskItem(c) /\ pc[c] = at

taskFrame == <<fp, uploaded, nconn, _processing_tasks, upload_result, _cleanup_task, sweepers>>

\* first step of the task: process_song starts _get_file_hash in the executor
task_start(c) ==
    /\ Resumes(c, "created")
    /\ pc' = [pc EXCEPT ![c] = "hashing"]
    /\ ready' = Tail(ready)
    /\ UNCHANGED <<files, dirs, temp, unlinks, emitted, dispatched, wrote,
                   cacheCheck, saveIdx, sent, active_connections,
                   connection_timestamps, faults>>
    /\ UNCHANGED taskFrame
    /\ UNCHANGED cancelVars
    /\ UNCHANGED exc
    /\ UNCHANGED apiVars

\* executor thread: _get_file_hash.read_chunks returns or raises OSError
read_chunks(c, ok) ==
    /\ pc[c] = "hashing"
    /\ Charge(ok)
    /\ pc' = [pc EXCEPT ![c] = IF ok THEN "hash_ok" ELSE "hash_fail"]
    /\ exc' = [exc EXCEPT ![c] = IF ok THEN @ ELSE "OSError: read"]
    /\ ready' = Append(ready, TaskItem(c))
    /\ UNCHANGED <<files, dirs, temp, unlinks, emitted, dispatched, wrote,
                   cacheCheck, saveIdx, sent, active_connections,
                   connection_timestamps>>
    /\ UNCHANGED taskFrame
    /\ UNCHANGED cancelVars
    /\ UNCHANGED apiVars

\* the hash (or cache_path.mkdir) raised: the exception is neither
\* CancellationError nor ProcessingError, so only the finally clause runs
process_song_oserror(c, hashed) ==
    /\ IF hashed
       THEN /\ Resumes(c, "hash_ok") /\ faults < MaxFaults /\ faults' = faults + 1
            /\ exc' = [exc EXCEPT ![c] = "OSError: mkdir"]
       ELSE Resumes(c, "hash_fail") /\ UNCHANGED <<faults, exc>>
    /\ Finally(c, "crashed", Tail(ready))
    /\ UNCHANGED <<files, dirs, emitted, dispatched, wrote, cacheCheck,
                   saveIdx, sent, active_connections,
                   connection_timestamps>>
    /\ UNCHANGED taskFrame
    /\ UNCHANGED cancelVars
    /\ UNCHANGED apiVars

\* process_song from the hash to the dispatch of the separation, with the
\* continuation in _process_with_progress when process_song returns or raises
process_song_check(c, ok) ==
    /\ Resumes(c, "hash_ok")
    /\ Charge(ok)
    /\ dirs' = dirs \cup {fp[c]}
    /\ UNCHANGED <<files, wrote, saveIdx>>
    /\ IF _check_cache(fp[c])
       THEN \* cache hit: progress 100, return paths, send_completion
            /\ cacheCheck' = [cacheCheck EXCEPT ![c] = "hit"]
            /\ ReturnStems(c, "Loaded from cache", ok)
            /\ UNCHANGED dispatched
       ELSE IF is_set(c)
       THEN \* CancellationError("Processing cancelled before starting")
            /\ cacheCheck' = [cacheCheck EXCEPT ![c] = "miss"]
            /\ RaiseCancellationError(c, ok)
            /\ UNCHANGED dispatched
       ELSE \* progress 10, progress 20, run_in_executor(_run_separation)
            /\ ok
            /\ cacheCheck' = [cacheCheck EXCEPT ![c] = "miss"]
            /\ Emit(c, <<ProgressMsg(10, "Loading audio file..."),
                         ProgressMsg(20, "Running stem separation...")>>)
            /\ ready' = progress_callback(
                            progress_callback(Tail(ready), c, 10, "Loading audio file..."),
                            c, 20, "Running stem separation...")
            /\ dispatched' = [dispatched EXCEPT ![c] = TRUE]
            /\ pc' = [pc EXCEPT ![c] = "separating"]
            /\ UNCHANGED <<temp, unlinks, sent, active_connections,
                   connection_timestamps>>
    /\ UNCHANGED taskFrame
    /\ UNCHANGED cancelVars
    /\ UNCHANGED exc
    /\ UNCHANGED apiVars

\* executor thread: _run_separation returns the stems or raises
_run_separation(c, ok, e) ==
    /\ pc[c] = "separating"
    /\ Charge(ok)
    /\ pc' = [pc EXCEPT ![c] = IF ok THEN "sep_ok" ELSE "sep_fail"]
    /\ exc' = [exc EXCEPT ![c] = IF ok THEN @ ELSE e]
    /\ ready' = Append(ready, TaskItem(c))
    /\ UNCHANGED <<files, dirs, temp, unlinks, emitted, dispatched, wrote,
                   cacheCheck, saveIdx, sent, active_connections,
                   connection_timestamps>>
    /\ UNCHANGED taskFrame
    /\ UNCHANGED cancelVars
    /\ UNCHANGED apiVars

\* variant: the result of the separation is saved without a second look at
\* the cancellation event
cancelled_after_separation_unchecked(c) == FALSE

\* process_song, "Check cancellation after separation"
cancelled_after_separation(c) == is_set(c)

\* process_song after the separation returned: ProcessingError on failure,
\* cancellation checkpoint, progress 80, first torchaudio.save dispatched
process_song_separated(c, ok) ==
    /\ ready # <<>> /\ Head(ready) = TaskItem(c)
    /\ pc[c] \in {"sep_ok", "sep_fail"}
    /\ Charge(ok)
    /\ UNCHANGED <<files, dirs, dispatched, wrote, cacheCheck>>
    /\ IF pc[c] = "sep_fail"
       THEN /\ RaiseProcessingError(c, ok)
            /\ UNCHANGED saveIdx
       ELSE IF cancelled_after_separation(c)
       THEN \* CancellationError("Processing cancelled after separation")
            /\ RaiseCancellationError(c, ok)
            /\ UNCHANGED saveIdx
       ELSE /\ ok
            /\ Emit(c, <<ProgressMsg(80, "Saving stems...")>>)
            /\ ready' = progress_callback(Tail(ready), c, 80, "Saving stems...")
            /\ saveIdx' = [saveIdx EXCEPT ![c] = 1]
            /\ pc' = [pc EXCEPT ![c] = "saving"]
            /\ UNCHANGED <<temp, unlinks, sent, active_connections,
                   connection_timestamps>>
    /\ UNCHANGED taskFrame
    /\ UNCHANGED cancelVars
    /\ UNCHANGED exc
    /\ UNCHANGED apiVars

\* executor thread, torchaudio.save: the output file is created (or
\* truncated), or the open raises
save_open(c, ok) ==
    /\ pc[c] = "saving"
    /\ Charge(ok)
    /\ IF ok
       THEN /\ files' = [files EXCEPT ![fp[c]][StemOrder[saveIdx[c]]] = "partial"]
            /\ wrote' = [wrote EXCEPT ![c] = @ + 1]
            /\ pc' = [pc EXCEPT ![c] = "writing"]
            /\ UNCHANGED ready
       ELSE /\ pc' = [pc EXCEPT ![c] = "save_fail"]
            /\ ready' = Append(ready, TaskItem(c))
            /\ UNCHANGED <<files, wrote>>
    /\ exc' = [exc EXCEPT ![c] = IF ok THEN @ ELSE "OSError: save"]
    /\ UNCHANGED <<dirs, temp, unlinks, emitted, dispatched, cacheCheck,
                   saveIdx, sent, active_connections,
                   connection_timestamps>>
    /\ UNCHANGED taskFrame
    /\ UNCHANGED cancelVars
    /\ UNCHANGED apiVars

\* executor thread, torchaudio.save: the samples are written and the file
\* closed, or the write raises and leaves the file as it is
save_close(c, ok) ==
    /\ pc[c] = "writing"
    /\ Charge(ok)
    /\ files' = IF ok
                THEN [files EXCEPT ![fp[c]][StemOrder[saveIdx[c]]] = "full"]
                ELSE files
    /\ pc' = [pc EXCEPT ![c] = IF ok THEN "save_ok" ELSE "save_fail"]
    /\ exc' = [exc EXCEPT ![c] = IF ok THEN @ ELSE "OSError: save"]
    /\ ready' = Append(ready, TaskItem(c))
    /\ UNCHANGED <<dirs, temp, unlinks, emitted, dispatched, wrote, cacheCheck,
                   saveIdx, sent, active_connections,
                   connection_timestamps>>
    /\ UNCHANGED taskFrame
    /\ UNCHANGED cancelVars
    /\ UNCHANGED apiVars

\* _save_stems after one torchaudio.save: next stem, or back in process_song:
\* progress 100 "Complete", return paths, send_completion; a failed save
\* becomes ProcessingError and send_error
process_song_saved(c, ok) ==
    /\ ready # <<>> /\ Head(ready) = TaskItem(c)
    /\ pc[c] \in {"save_ok", "save_fail"}
    /\ Charge(ok)
    /\ UNCHANGED <<files, dirs, dispatched, wrote, cacheCheck>>
    /\ IF pc[c] = "save_fail"
       THEN /\ RaiseProcessingError(c, ok)
            /\ UNCHANGED saveIdx
       ELSE IF saveIdx[c] < Len(StemOrder)
       THEN /\ ok
            /\ saveIdx' = [saveIdx EXCEPT ![c] = @ + 1]
            /\ pc' = [pc EXCEPT ![c] = "saving"]
            /\ ready' = Tail(ready)
            /\ UNCHANGED <<emitted, temp, unlinks, sent, active_connections,
                   connection_timestamps>>
       ELSE /\ process_song_return(c, ok)
            /\ UNCHANGED saveIdx
    /\ UNCHANGED taskFrame
    /\ UNCHANGED cancelVars
    /\ UNCHANGED exc
    /\ UNCHANGED apiVars

\* ------------------------------------------------------------------- Next
Next ==
    \/ \E ctype \in ContentTypes, size \in Sizes, f \in NextPrints, ok \in Outcomes :
          process_audio(ctype, size, f, ok)
    \/ \E c \in Clients, valid \in BOOLEAN : process_audio_validated(c, valid)
    \/ \E c \in Clients : cancel_processing(c)
    \/ \E c \in Clients : cleanup_task(c)
    \/ \E c \in Clients : connect(c)
    \/ \E c \in Clients : ws_disconnect(c)
    \/ \E c \in Clients : \E ok \in SendOutcomes(c) : run_send_progress(c, ok)
    \/ \E c \in Clients : task_start(c)
    \/ \E c \in Clients : \E ok \in Outcomes : read_chunks(c, ok)
    \/ \E c \in Clients, hashed \in BOOLEAN : process_song_oserror(c, hashed)
    \/ \E c \in Clients : \E ok \in SendOutcomes(c) : process_song_check(c, ok)
    \/ \E c \in Clients : \E ok \in Outcomes, e \in SeparationErrors :
          _run_separation(c, ok, e)
    \/ \E c \in Clients : \E ok \in SendOutcomes(c) : process_song_separated(c, ok)
    \/ \E c \in Clients : \E ok \in Outcomes : save_open(c, ok)
    \/ \E c \in Clients : \E ok \in Outcomes : save_close(c, ok)
    \/ \E c \in Clients : \E ok \in SendOutcomes(c) : process_song_saved(c, ok)

Spec == Init /\ [][Next]_vars

\* the steps the event loop takes from its ready queue: task resumptions,
\* scheduled send_progress coroutines, done callbacks
LoopStep ==
    \/ \E c \in Clients : cleanup_task(c)
    \/ \E c \in Clients : \E ok \in SendOutcomes(c) : run_send_progress(c, ok)
    \/ \E c \in Clients : task_start(c)
    \/ \E c \in Clients, hashed \in BOOLEAN : process_song_oserror(c, hashed)
    \/ \E c \in Clients : \E ok \in SendOutcomes(c) : process_song_check(c, ok)
    \/ \E c \in Clients : \E ok \in SendOutcomes(c) : process_song_separated(c, ok)
    \/ \E c \in Clients : \E ok \in SendOutcomes(c) : process_song_saved(c, ok)

\* the jobs alone, no subscriber connecting: uploads, cancel requests, the
\* executor threads and the steps of the loop
JobNext ==
    \/ \E ctype \in ContentTypes, size \in Sizes, f \in NextPrints, ok \in Outcomes :
          process_audio(ctype, size, f, ok)
    \/ \E c \in Clients, valid \in BOOLEAN : process_audio_validated(c, valid)
    \/ \E c \in Clients : cancel_processing(c)
    \/ \E c \in Clients : \E ok \in Outcomes : read_chunks(c, ok)
    \/ \E c \in Clients : \E ok \in Outcomes, e \in SeparationErrors :
          _run_separation(c, ok, e)
    \/ \E c \in Clients : \E ok \in Outcomes : save_open(c, ok)
    \/ \E c \in Clients : \E ok \in Outcomes : save_close(c, ok)
    \/ LoopStep

\* the event loop keeps running: a non-empty ready queue is served
FairSpec == Init /\ [][JobNext]_vars /\ WF_vars(LoopStep)

\* the same with subscribers connecting and disconnecting
FairSpecWithSubscribers == Spec /\ WF_vars(LoopStep)

TypeOK ==
    /\ pc \in [Clients -> {"new", "rejected", "validating", "created", "hashing",
                           "hash_ok", "hash_fail", "separating", "sep_ok",
                           "sep_fail", "saving", "writing", "save_ok",
                           "save_fail"} \cup Terminal]
    /\ \A c \in Clients : unlinks[c] \in 0..2 /\ wrote[c] \in 0..Len(StemOrder)
    /\ faults \in 0..MaxFaults

\* ----------------------------------------------------------- CacheManager
\* The LRU cache manager (app/services/cache_manager.py), driven through its
\* public methods.  An entry of cache_dir is a directory: its files with their
\* sizes, its st_atime and st_mtime, and (for observation only) the time of
\* the last set or get hit on it.
jobState == <<files, dirs, temp, unlinks, fp, pc, flag, _cancellation_events,
              _processing_tasks, ready, emitted, dispatched, wrote, cacheCheck,
              saveIdx, cancel_result, uploaded, faults, cancels, exc,
              upload_result>>

CacheKeys == 1..MaxKeys
MiB == 1024 * 1024
\* CacheManager.__init__: self.max_size_bytes
max_size_bytes == max_size_mb * 1024 * 1024

\* source directories handed to set: all four stems, two of them, or none;
\* files of 1 MiB or 3 MiB; a directory made just now, an old one, or an old
\* one that was read just now
ArtifactSets == {stem_types, {"drums", "bass"}, {}}
FileSizes == {1 * MiB, 3 * MiB}
SourceDirs ==
    {[files |-> [a \in arts |-> z], atime |-> t[1], mtime |-> t[2]] :
        arts \in ArtifactSets, z \in FileSizes,
        t \in {<<now, now>>, <<0, 0>>, <<now, 0>>}}

RECURSIVE SumSizes(_, _)
SumSizes(fs, names) ==
    IF names = {} THEN 0
    ELSE LET a == CHOOSE x \in names : TRUE
         IN fs[a] + SumSizes(fs, names \ {a})

\* get_stats / _enforce_size_limit: sum of st_size over the files of a directory
dir_size(entry) == SumSizes(entry.files, DOMAIN entry.files)

RECURSIVE TotalOver(_, _)
TotalOver(d, keys) ==
    IF keys = {} THEN 0
    ELSE LET k == CHOOSE x \in keys : TRUE
         IN dir_size(d[k]) + TotalOver(d, keys \ {k})

\* get_stats()["total_size_bytes"]
total_size_bytes(d) == TotalOver(d, DOMAIN d)

rmtree(d, key) == [k \in DOMAIN d \ {key} |-> d[k]]

\* variant: the cache root itself is removed
remove_path_root(d, key) == IF key \in DOMAIN d THEN NoEntries ELSE d

\* CacheManager.remove: "if cache_path.exists(): shutil.rmtree(cache_path)"
remove_path(d, key) == IF key \in DOMAIN d THEN rmtree(d, key) ELSE d

\* shutil.copytree(stems_dir, cache_path): the files are copied and copystat
\* gives the new directory the times of the source directory
copytree(d, key, src) ==
    [k \in DOMAIN d \cup {key} |->
        IF k = key
        THEN [files |-> src.files, atime |-> src.atime, mtime |-> src.mtime,
              accessed |-> now]
        ELSE d[k]]

\* variant: every directory under the cache root is touched
_touch_cache_all(d, key) ==
    [k \in DOMAIN d |-> [d[k] EXCEPT !.atime = now, !.mtime = now]]

\* _touch_cache: Path.touch sets st_atime and st_mtime to the current time
_touch_cache(d, key) ==
    [d EXCEPT ![key].atime = now, ![key].mtime = now, ![key].accessed = now]

\* variant: only the single oldest directory is removed
_enforce_size_limit_once(d) ==
    IF total_size_bytes(d) <= max_size_bytes THEN {d}
    ELSE {rmtree(d, k) :
            k \in {x \in DOMAIN d : \A y \in DOMAIN d : d[x].atime <= d[y].atime}}

\* _enforce_size_limit: nothing when the total is within max_size_bytes; else
\* directories are removed in ascending st_atime order (equal times in
\* directory-listing order, which is arbitrary) until the total fits.  The
\* value is the set of cache roots the call can leave.
RECURSIVE _enforce_size_limit(_)
_enforce_size_limit(d) ==
    IF total_size_bytes(d) <= max_size_bytes THEN {d}
    ELSE UNION {_enforce_size_limit(rmtree(d, k)) :
                  k \in {x \in DOMAIN d : \A y \in DOMAIN d : d[x].atime <= d[y].atime}}

\* variant: an entry exists when all four stems are in its directory
exists_result_complete(d, key) == key \in DOMAIN d /\ DOMAIN d[key].files = stem_types

\* what exists(key) and get(key) answer in the current state
exists_result(d, key) == key \in DOMAIN d
get_result(d, key) == IF key \in DOMAIN d THEN "path" ELSE "none"

\* one call: what was asked (op, key; for set the names and bytes of the
\* directory handed in) and what came back (val; for get the names found)
Call(op, key, val, arts, size) ==
    /\ ncalls < MaxCalls
    /\ ncalls' = ncalls + 1
    /\ ret' = [op |-> op, key |-> key, val |-> val, arts |-> arts, size |-> size,
               count |-> 0, digest |-> << >>, at |-> now, io |-> "none", msg |-> NoMsg]
    /\ UNCHANGED <<cycle, path_bytes, suspended, threads>>

cacheFrame == <<now, active_connections, connection_timestamps, nconn, sent,
                _cleanup_task, sweepers>>

\* CacheManager.set: an existing entry is removed, the source directory is
\* copied under the key, the size limit is enforced, the path is returned
set(key, stems_dir) ==
    /\ Call("set", key, "path", DOMAIN stems_dir.files, dir_size(stems_dir))
    /\ cache_dir' \in _enforce_size_limit(copytree(rmtree(cache_dir, key), key, stems_dir))
    /\ UNCHANGED cacheFrame
    /\ UNCHANGED jobState

\* CacheManager.get: None when the directory does not exist, else the
\* directory is touched and its path returned
get(key) ==
    /\ Call("get", key, get_result(cache_dir, key),
            IF key \in DOMAIN cache_dir THEN DOMAIN cache_dir[key].files ELSE {}, 0)
    /\ cache_dir' = IF key \in DOMAIN cache_dir THEN _touch_cache(cache_dir, key)
                                                ELSE cache_dir
    /\ UNCHANGED cacheFrame
    /\ UNCHANGED jobState

\* CacheManager.exists: cache_path.exists()
exists(key) ==
    /\ Call("exists", key, IF exists_result(cache_dir, key) THEN "true" ELSE "false", {}, 0)
    /\ UNCHANGED cache_dir
    /\ UNCHANGED cacheFrame
    /\ UNCHANGED jobState

\* CacheManager.remove: rmtree when the directory exists
remove(key) ==
    /\ Call("remove", key, IF key \in DOMAIN cache_dir THEN "true" ELSE "false", {}, 0)
    /\ cache_dir' = remove_path(cache_dir, key)
    /\ UNCHANGED cacheFrame
    /\ UNCHANGED jobState

\* horizons handed to cleanup_old, in days
Horizons == {0, 1}

\* cleanup_old: "cutoff = datetime.now() - timedelta(days=max_age_days)"
cutoff(max_age_days) == now - max_age_days * SecondsPerDay

\* cleanup_old: the directories with st_mtime < cutoff
older_than(d, max_age_days) == {k \in DOMAIN d : d[k].mtime < cutoff(max_age_days)}

\* CacheManager.cleanup_old: every directory whose st_mtime lies before the
\* cutoff is removed; the number of removed directories is returned
cleanup_old(max_age_days) ==
    LET old == older_than(cache_dir, max_age_days) IN
    /\ ncalls < MaxCalls
    /\ ncalls' = ncalls + 1
    /\ ret' = [op |-> "cleanup_old", key |-> max_age_days, val |-> "count",
               arts |-> {}, size |-> 0, count |-> Cardinality(old),
               digest |-> << >>, at |-> now, io |-> "none", msg |-> NoMsg]
    /\ cache_dir' = [k \in DOMAIN cache_dir \ old |-> cache_dir[k]]
    /\ UNCHANGED <<cycle, path_bytes, suspended, threads>>
    /\ UNCHANGED cacheFrame
    /\ UNCHANGED jobState

\* the clock advances by d seconds between calls
Tick(d) ==
    /\ now < MaxTime * d
    /\ now' = now + d
    /\ UNCHANGED <<cache_dir, ret, ncalls, active_connections,
                   connection_timestamps, nconn, sent, _cleanup_task, sweepers, cycle,
                   path_bytes, suspended, threads>>
    /\ UNCHANGED jobState

\* keys are content hashes: a new key is the next unseen one
NextKeys == {k \in CacheKeys : k = 1 \/ k \in DOMAIN cache_dir \/ (k - 1) \in DOMAIN cache_dir}

CacheNext ==
    \/ \E key \in NextKeys, stems_dir \in SourceDirs : set(key, stems_dir)
    \/ \E key \in CacheKeys : get(key)
    \/ \E key \in CacheKeys : exists(key)
    \/ \E key \in CacheKeys : remove(key)
    \/ \E max_age_days \in Horizons : cleanup_old(max_age_days)
    \/ Tick(SecondsPerDay)

CacheSpec == Init /\ [][CacheNext]_vars

\* ------------------------------------------ CacheManager.set, thread by thread
\* Two threads call set on one CacheManager.  set holds no lock, so the
\* threads interleave between the directory operations of set: the removal of
\* an existing entry, the makedirs, the copy of each file and the copystat of
\* shutil.copytree, and the eviction pass.
RaceKeys == {1, 2}
RaceSources == {src \in SourceDirs : DOMAIN src.files = {"drums", "bass"}}

\* positions of a thread inside set at which its entry is not yet complete
Copying == {"makedirs", "copy2", "copystat"}
InSet == {t \in Threads : threads[t].at # "idle"}

raceFrame == <<cycle, path_bytes, suspended>>

\* set returns the path, or the exception of a directory operation leaves it
SetReturn(t, val) ==
    /\ ncalls' = ncalls + 1
    /\ ret' = [op |-> "set", key |-> threads[t].key, val |-> val,
               arts |-> DOMAIN threads[t].src.files, size |-> dir_size(threads[t].src),
               count |-> t, digest |-> << >>, at |-> now, io |-> "none", msg |-> NoMsg]
    /\ threads' = [threads EXCEPT ![t] = Idle]

\* set: "if cache_path.exists(): shutil.rmtree(cache_path)"
set_rmtree(t, key, stems_dir) ==
    /\ threads[t].at = "idle"
    /\ ncalls + Cardinality(InSet) < MaxSets
    /\ cache_dir' = remove_path(cache_dir, key)
    /\ threads' = [threads EXCEPT ![t] = [at |-> "makedirs", key |-> key,
                                          src |-> stems_dir,
                                          todo |-> DOMAIN stems_dir.files]]
    /\ UNCHANGED <<ret, ncalls>>
    /\ UNCHANGED raceFrame /\ UNCHANGED cacheFrame /\ UNCHANGED jobState

\* copytree: os.makedirs(dst) creates the empty directory, or raises
\* FileExistsError when the directory is there
copytree_makedirs(t) ==
    LET key == threads[t].key IN
    /\ threads[t].at = "makedirs"
    /\ IF key \in DOMAIN cache_dir
       THEN /\ SetReturn(t, "raised")
            /\ UNCHANGED cache_dir
       ELSE /\ cache_dir' = [k \in DOMAIN cache_dir \cup {key} |->
                                IF k = key
                                THEN [files |-> << >>, atime |-> now, mtime |-> now,
                                      accessed |-> now]
                                ELSE cache_dir[k]]
            /\ threads' = [threads EXCEPT ![t].at = "copy2"]
            /\ UNCHANGED <<ret, ncalls>>
    /\ UNCHANGED raceFrame /\ UNCHANGED cacheFrame /\ UNCHANGED jobState

\* copytree: copy2 of one file of the source into the directory, which raises
\* FileNotFoundError when the directory is gone
copytree_copy2(t, a) ==
    LET key == threads[t].key
        src == threads[t].src
    IN
    /\ threads[t].at = "copy2"
    /\ a \in threads[t].todo
    /\ IF key \notin DOMAIN cache_dir
       THEN /\ SetReturn(t, "raised")
            /\ UNCHANGED cache_dir
       ELSE /\ cache_dir' =
                  [cache_dir EXCEPT ![key].files =
                      [b \in DOMAIN @ \cup {a} |-> IF b = a THEN src.files[a] ELSE @[b]],
                                    ![key].mtime = now]
            /\ threads' = [threads EXCEPT ![t].todo = @ \ {a},
                                          ![t].at = IF threads[t].todo = {a}
                                                    THEN "copystat" ELSE "copy2"]
            /\ UNCHANGED <<ret, ncalls>>
    /\ UNCHANGED raceFrame /\ UNCHANGED cacheFrame /\ UNCHANGED jobState

\* copytree: copystat(src, dst) gives the directory the times of the source
copytree_copystat(t) ==
    LET key == threads[t].key
        src == threads[t].src
    IN
    /\ threads[t].at = "copystat"
    /\ IF key \notin DOMAIN cache_dir
       THEN /\ SetReturn(t, "raised")
            /\ UNCHANGED cache_dir
       ELSE /\ cache_dir' = [cache_dir EXCEPT ![key].atime = src.atime,
                                              ![key].mtime = src.mtime]
            /\ threads' = [threads EXCEPT ![t].at = "enforce"]
            /\ UNCHANGED <<ret, ncalls>>
    /\ UNCHANGED raceFrame /\ UNCHANGED cacheFrame /\ UNCHANGED jobState

\* set: "self._enforce_size_limit()" and "return cache_path"
set_enforce(t) ==
    /\ threads[t].at = "enforce"
    /\ cache_dir' \in _enforce_size_limit(cache_dir)
    /\ SetReturn(t, "path")
    /\ UNCHANGED raceFrame /\ UNCHANGED cacheFrame /\ UNCHANGED jobState

SetRaceNext ==
    \/ \E t \in Threads, key \in RaceKeys, stems_dir \in RaceSources :
          set_rmtree(t, key, stems_dir)
    \/ \E t \in Threads : copytree_makedirs(t)
    \/ \E t \in Threads : \E a \in threads[t].todo : copytree_copy2(t, a)
    \/ \E t \in Threads : copytree_copystat(t)
    \/ \E t \in Threads : set_enforce(t)
    \/ Tick(SecondsPerDay)

SetRaceSpec == Init /\ [][SetRaceNext]_vars

\* ------------------------------------------- ConnectionManager, call by call
\* The ConnectionManager (app/api/websocket.py) driven through its public
\* methods with any client id and any message, whatever the jobs do.
SendOps == {"send_progress", "send_completion", "send_error"}

\* a send to a registered subscriber can fail on the transport
TransportOutcomes(c) == IF active_connections[c] # 0 THEN BOOLEAN ELSE {TRUE}

\* one call of a send method: the message it was given, what the transport
\* did ("none": send_json was not called), and that the call returned
SendCall(op, c, m, ok) ==
    /\ ncalls < MaxCalls
    /\ ncalls' = ncalls + 1
    /\ ret' = [op |-> op, key |-> c, val |-> "returned", arts |-> {}, size |-> 0,
               count |-> 0, digest |-> << >>, at |-> now,
               io |-> IF active_connections[c] = 0 THEN "none"
                      ELSE IF ok THEN "ok" ELSE "failed",
               msg |-> m]
    /\ UNCHANGED <<now, nconn, cache_dir, _cleanup_task, sweepers, cycle, path_bytes,
                   suspended, threads>>
    /\ UNCHANGED jobState

\* ConnectionManager.connect: accept, register (replacing any registration
\* under the same id), stamp with the current time
manager_connect(c) ==
    /\ Call("connect", c, "returned", {}, 0)
    /\ nconn' = nconn + 1
    /\ active_connections' = [active_connections EXCEPT ![c] = nconn + 1]
    /\ connection_timestamps' = [connection_timestamps EXCEPT ![c] = now]
    /\ start_cleanup
    /\ UNCHANGED <<now, sent, cache_dir>>
    /\ UNCHANGED jobState

\* ConnectionManager.disconnect
manager_disconnect(c) ==
    /\ Call("disconnect", c, "returned", {}, 0)
    /\ active_connections' = disconnect(active_connections, c)
    /\ connection_timestamps' = disconnect_ts(connection_timestamps, c)
    /\ UNCHANGED <<now, nconn, sent, cache_dir, _cleanup_task, sweepers>>
    /\ UNCHANGED jobState

\* variant: the age is taken with the operands exchanged
is_stale_reversed(stamp) == stamp # NoTs /\ stamp - now > stale_timeout

\* _periodic_cleanup: "if now - timestamp > self.stale_timeout"
is_stale(stamp) == stamp # NoTs /\ now - stamp > stale_timeout

\* one cycle of a _periodic_cleanup task after its sleep: the stale client
\* ids are collected and disconnected, and the task ends when no connection
\* remains.  disconnect never suspends, so the cycle is one step.
_periodic_cleanup ==
    LET stale_clients == {c \in Clients : is_stale(connection_timestamps[c])}
        remaining == [c \in Clients |->
                        IF c \in stale_clients THEN 0 ELSE active_connections[c]]
        ended == \A c \in Clients : remaining[c] = 0
    IN
    /\ sweepers > 0
    /\ active_connections' = remaining
    /\ connection_timestamps' =
          [c \in Clients |-> IF c \in stale_clients THEN NoTs
                                                    ELSE connection_timestamps[c]]
    /\ sweepers' = IF ended THEN sweepers - 1 ELSE sweepers
    /\ _cleanup_task' = IF ended /\ sweepers = 1 THEN "done" ELSE _cleanup_task
    /\ cycle' = 1 - cycle
    /\ UNCHANGED <<now, nconn, sent, cache_dir, ret, ncalls, path_bytes,
                   suspended, threads>>
    /\ UNCHANGED jobState

manager_send_progress(c, progress, status, ok) ==
    /\ SendCall("send_progress", c, ProgressMsg(progress, status), ok)
    /\ send_progress(c, progress, status, ok)

manager_send_completion(c, result, ok) ==
    /\ SendCall("send_completion", c, CompleteMsg(result), ok)
    /\ send_completion(c, result, ok)

manager_send_error(c, error, ok) ==
    /\ SendCall("send_error", c, ErrorMsg(error, ""), ok)
    /\ send_error(c, error, "", ok)

\* a message handed to broadcast
BroadcastMsg ==
    [type |-> "announcement", progress |-> 0, status |-> "Server restarting",
     cause |-> "", stems |-> NoStems]

\* broadcast: the client ids of active_connections.items()
registered == {c \in Clients : active_connections[c] # 0}

\* variant: a failed send is logged and nothing else
broadcast_disconnected_none(failing) == {}

\* broadcast: the ids appended to `disconnected` and disconnected after the loop
broadcast_disconnected(failing) == failing

\* ConnectionManager.broadcast with no connect or disconnect while it awaits:
\* send_json is called once for every registered connection, `failing` being
\* the ids whose send_json raises; those are disconnected after the loop.  No
\* timestamp is renewed.
manager_broadcast(m, failing) ==
    LET gone == broadcast_disconnected(failing) IN
    /\ failing \subseteq registered
    /\ ncalls < MaxCalls
    /\ ncalls' = ncalls + 1
    /\ ret' = [op |-> "broadcast", key |-> 0, val |-> "returned",
               arts |-> registered, size |-> 0, count |-> 0, digest |-> << >>, at |-> now,
               io |-> IF failing = {} THEN "ok" ELSE "failed", msg |-> m]
    /\ sent' = [c \in Clients |->
                  IF c \in registered \ failing THEN Append(sent[c], m) ELSE sent[c]]
    /\ active_connections' =
          [c \in Clients |-> IF c \in gone THEN 0 ELSE active_connections[c]]
    /\ connection_timestamps' =
          [c \in Clients |-> IF c \in gone THEN disconnect_ts(connection_timestamps, c)[c]
                                           ELSE connection_timestamps[c]]
    /\ UNCHANGED <<now, nconn, cache_dir, _cleanup_task, sweepers, cycle, path_bytes,
                   suspended, threads>>
    /\ UNCHANGED jobState

ConnNext ==
    \/ \E failing \in SUBSET Clients : manager_broadcast(BroadcastMsg, failing)
    \/ \E c \in Clients : manager_connect(c)
    \/ \E c \in Clients : manager_disconnect(c)
    \/ \E c \in Clients, progress \in {10, 100} : \E ok \in TransportOutcomes(c) :
          manager_send_progress(c, progress, "Processing", ok)
    \/ \E c \in Clients : \E ok \in TransportOutcomes(c) :
          manager_send_completion(c, _get_stem_paths(1), ok)
    \/ \E c \in Clients : \E ok \in TransportOutcomes(c) :
          manager_send_error(c, "Stem separation failed", ok)
    \/ _periodic_cleanup
    \/ Tick(stale_timeout)

ConnSpec == Init /\ [][ConnNext]_vars

\* asyncio.sleep(60) returns: a sweep task that sleeps is woken in the end
ConnFairSpec == ConnSpec /\ WF_vars(_periodic_cleanup)

\* ------------------------------------- ConnectionManager, await by await
\* The coroutines of app/api/websocket.py on one event loop.  A coroutine
\* runs without interruption up to its next await; while it is suspended on
\* receive_json or send_json, any other coroutine can run.  `suspended` holds
\* the suspended coroutines: the served endpoints, the send_progress calls and
\* the broadcast calls, each with the client id and the transport it works on.
Suspend(op, c, ws, m) ==
    [op |-> op, key |-> c, ws |-> ws, msg |-> m, size |-> 0, seen |-> {},
     failed |-> {}, inserted |-> FALSE, start |-> nconn]

Endpoints == {r \in suspended : r.op = "endpoint"}
Sends == {r \in suspended : r.op = "send_progress"}
Broadcasts == {r \in suspended : r.op = "broadcast"}

\* what a call reports when it ends (count: for broadcast the number of
\* connects accepted before it began; arts: the ids it sent to)
AwaitRet(op, c, val, io, m, ids, started) ==
    ret' = [op |-> op, key |-> c, val |-> val, arts |-> ids, size |-> 0,
            count |-> started, digest |-> << >>, at |-> now, io |-> io, msg |-> m]

awaitFrame == <<now, cache_dir, cycle, path_bytes, threads>>

\* a key inserted into active_connections is seen by every dict iterator
\* that is suspended inside broadcast
dict_insert(coros, c) ==
    {IF r.op = "broadcast" /\ active_connections[c] = 0
     THEN [r EXCEPT !.inserted = TRUE] ELSE r : r \in coros}

\* websocket_endpoint up to its first receive_json: manager.connect accepts
\* the transport, registers it under the id (replacing any other transport
\* registered there), stamps it and starts the sweep task when needed
websocket_endpoint(c) ==
    /\ ncalls < MaxCalls
    /\ ncalls' = ncalls + 1
    /\ nconn' = nconn + 1
    /\ active_connections' = [active_connections EXCEPT ![c] = nconn + 1]
    /\ connection_timestamps' = [connection_timestamps EXCEPT ![c] = now]
    /\ start_cleanup
    /\ suspended' = dict_insert(suspended, c)
                        \cup {Suspend("endpoint", c, nconn + 1, NoMsg)}
    /\ AwaitRet("connect", c, "returned", "none", NoMsg, {}, nconn)
    /\ UNCHANGED sent
    /\ UNCHANGED awaitFrame /\ UNCHANGED jobState

\* websocket_endpoint: receive_json raises WebSocketDisconnect or another
\* exception on the transport of r, and the handler calls
\* manager.disconnect(client_id)
receive_json_raises(r) ==
    /\ r \in Endpoints
    /\ active_connections' = disconnect(active_connections, r.key)
    /\ connection_timestamps' = disconnect_ts(connection_timestamps, r.key)
    /\ suspended' = suspended \ {r}
    /\ AwaitRet("disconnect", r.key, "returned", "none", NoMsg, {}, r.ws)
    /\ UNCHANGED <<ncalls, nconn, sent, _cleanup_task, sweepers>>
    /\ UNCHANGED awaitFrame /\ UNCHANGED jobState

\* send_progress up to "await self.active_connections[client_id].send_json"
send_progress_await(c, progress, status) ==
    /\ ncalls < MaxCalls
    /\ ncalls' = ncalls + 1
    /\ active_connections[c] # 0
    /\ suspended' = suspended \cup
          {Suspend("send_progress", c, active_connections[c], ProgressMsg(progress, status))}
    /\ UNCHANGED <<ret, active_connections, connection_timestamps, nconn, sent,
                   _cleanup_task, sweepers>>
    /\ UNCHANGED awaitFrame /\ UNCHANGED jobState

\* send_progress after the await: "self.connection_timestamps[client_id] = time.time()"
renew_timestamp(stamps, c) == [stamps EXCEPT ![c] = now]

\* send_progress from the return of send_json: the timestamp of the id is
\* written, or, when send_json raised, the id is disconnected
send_progress_resumes(r, ok) ==
    /\ r \in Sends
    /\ suspended' = suspended \ {r}
    /\ IF ok
       THEN /\ sent' = [sent EXCEPT ![r.key] = Append(@, r.msg)]
            /\ connection_timestamps' = renew_timestamp(connection_timestamps, r.key)
            /\ UNCHANGED active_connections
       ELSE /\ active_connections' = disconnect(active_connections, r.key)
            /\ connection_timestamps' = disconnect_ts(connection_timestamps, r.key)
            /\ UNCHANGED sent
    /\ AwaitRet("send_progress", r.key, "returned", IF ok THEN "ok" ELSE "failed",
                r.msg, {}, r.ws)
    /\ UNCHANGED <<ncalls, nconn, _cleanup_task, sweepers>>
    /\ UNCHANGED awaitFrame /\ UNCHANGED jobState

\* broadcast up to its first send_json: with nobody registered the loop body
\* never runs and the call returns; else the iterator over
\* active_connections.items() yields its first item
broadcast_await(m) ==
    /\ ncalls < MaxCalls
    /\ ncalls' = ncalls + 1
    /\ IF registered = {}
       THEN /\ AwaitRet("broadcast", 0, "returned", "ok", m, {}, nconn)
            /\ UNCHANGED suspended
       ELSE /\ \E c \in registered :
                  suspended' = suspended \cup
                     {[Suspend("broadcast", c, active_connections[c], m)
                         EXCEPT !.size = Cardinality(registered), !.seen = {c}]}
            /\ UNCHANGED ret
    /\ UNCHANGED <<active_connections, connection_timestamps, nconn, sent,
                   _cleanup_task, sweepers>>
    /\ UNCHANGED awaitFrame /\ UNCHANGED jobState

\* the dict iterator of broadcast is asked for its next item: it raises
\* RuntimeError when the dict has another size than when the iteration began
iterator_raises(r) == Cardinality(registered) # r.size

\* broadcast from the return of a send_json.  A failed send appends the id to
\* `disconnected`.  Then the iterator is asked for the next item: it raises
\* when the size of the dict changed; after an insertion that left the size
\* as it was, what it yields depends on the layout of the dict (any outcome);
\* else it yields a key not yet visited, or the loop ends and the ids in
\* `disconnected` are disconnected.
broadcast_resumes(r, ok, raises, next) ==
    LET failed == IF ok THEN r.failed ELSE r.failed \cup {<<r.key, r.ws>>}
        unseen == registered \ r.seen
        gone == {p[1] : p \in failed}
    IN
    /\ r \in Broadcasts
    /\ sent' = IF ok THEN [sent EXCEPT ![r.key] = Append(@, r.msg)] ELSE sent
    /\ raises \in IF iterator_raises(r) THEN {TRUE}
                  ELSE IF r.inserted THEN BOOLEAN ELSE {FALSE}
    /\ IF raises
       THEN /\ suspended' = suspended \ {r}
            /\ AwaitRet("broadcast", 0, "raised", IF failed = {} THEN "ok" ELSE "failed",
                        r.msg, r.seen, r.start)
            /\ UNCHANGED <<active_connections, connection_timestamps>>
       ELSE IF unseen # {}
       THEN /\ next \in unseen
            /\ suspended' = (suspended \ {r}) \cup
                  {[r EXCEPT !.key = next, !.ws = active_connections[next],
                             !.seen = @ \cup {next}, !.failed = failed]}
            /\ UNCHANGED <<ret, active_connections, connection_timestamps>>
       ELSE /\ suspended' = suspended \ {r}
            /\ active_connections' =
                  [c \in Clients |-> IF c \in gone THEN 0 ELSE active_connections[c]]
            /\ connection_timestamps' =
                  [c \in Clients |-> IF c \in gone THEN NoTs ELSE connection_timestamps[c]]
            /\ AwaitRet("broadcast", 0, "returned", IF failed = {} THEN "ok" ELSE "failed",
                        r.msg, r.seen, r.start)
    /\ UNCHANGED <<ncalls, nconn, _cleanup_task, sweepers>>
    /\ UNCHANGED awaitFrame /\ UNCHANGED jobState

AwaitNext ==
    \/ \E c \in Clients : websocket_endpoint(c)
    \/ \E r \in suspended : receive_json_raises(r)
    \/ \E c \in Clients : send_progress_await(c, 10, "Processing")
    \/ \E r \in suspended, ok \in BOOLEAN : send_progress_resumes(r, ok)
    \/ broadcast_await(BroadcastMsg)
    \/ \E r \in suspended, ok \in BOOLEAN, raises \in BOOLEAN, next \in Clients :
          broadcast_resumes(r, ok, raises, next)
    \/ _periodic_cleanup
    \/ Tick(stale_timeout)

AwaitSpec == Init /\ [][AwaitNext]_vars

\* ------------------------------------------------------------ fingerprints
\* The two fingerprint functions, CacheManager.get_cache_key and
\* DemucsProcessor._get_file_hash, over the files of path_bytes.  The bytes of
\* a file are kept as runs <<byte, count>>, no two neighbours with the same
\* byte, so that files longer than one 4096-byte block stay small.
BlockSize == 4096

Run(b, n) == [b |-> b, n |-> n]

\* payloads written by the uploads: empty, short, one block exactly, one
\* block and a byte, the same with another last byte, two blocks
Contents ==
    {<< >>, <<Run(7, 1)>>, <<Run(7, BlockSize)>>, <<Run(7, BlockSize + 1)>>,
     <<Run(7, BlockSize), Run(9, 1)>>, <<Run(7, 2 * BlockSize)>>}

RECURSIVE RunLen(_)
RunLen(runs) == IF runs = << >> THEN 0 ELSE Head(runs).n + RunLen(Tail(runs))

\* the bytes after the first k
RECURSIVE Drop(_, _)
Drop(runs, k) ==
    IF k = 0 \/ runs = << >> THEN runs
    ELSE IF Head(runs).n <= k THEN Drop(Tail(runs), k - Head(runs).n)
    ELSE <<Run(Head(runs).b, Head(runs).n - k)>> \o Tail(runs)

\* the first k bytes, fewer at the end of the file
RECURSIVE Take(_, _)
Take(runs, k) ==
    IF k = 0 \/ runs = << >> THEN << >>
    ELSE IF Head(runs).n <= k
         THEN <<Head(runs)>> \o Take(Tail(runs), k - Head(runs).n)
    ELSE <<Run(Head(runs).b, k)>>

\* f.read(size) with the file position at pos
f_read(content, pos, size) == Take(Drop(content, pos), size)

\* sha256.update(chunk): the bytes absorbed so far followed by the chunk
sha256_update(absorbed, chunk) ==
    IF absorbed # << >> /\ chunk # << >>
       /\ absorbed[Len(absorbed)].b = Head(chunk).b
    THEN SubSeq(absorbed, 1, Len(absorbed) - 1)
         \o <<Run(Head(chunk).b, absorbed[Len(absorbed)].n + Head(chunk).n)>>
         \o Tail(chunk)
    ELSE absorbed \o chunk

\* one 16-bit word of the digest: a mixing of the absorbed bytes in order
RECURSIVE Mix(_, _)
Mix(runs, h) ==
    IF runs = << >> THEN h
    ELSE Mix(Tail(runs), (h * 31 + (Head(runs).b + 1) * 257 + Head(runs).n) % 65536)

\* sha256.hexdigest(): 64 hex digits, kept as 16 words of four digits; a
\* function of the absorbed bytes and of nothing else
hexdigest(absorbed) == [i \in 1..16 |-> Mix(absorbed, i)]

\* hexdigest()[:16]: the first 16 hex digits, four words
first16(digest) == SubSeq(digest, 1, 4)

\* get_cache_key: "for chunk in iter(lambda: f.read(4096), b'')"
RECURSIVE iter_read(_, _, _)
iter_read(content, pos, absorbed) ==
    LET chunk == f_read(content, pos, BlockSize) IN
    IF chunk = << >> THEN absorbed
    ELSE iter_read(content, pos + RunLen(chunk), sha256_update(absorbed, chunk))

\* _get_file_hash.read_chunks: "while chunk := f.read(4096)"
RECURSIVE while_read(_, _, _)
while_read(content, pos, absorbed) ==
    LET chunk == f_read(content, pos, BlockSize) IN
    IF chunk # << >>
    THEN while_read(content, pos + RunLen(chunk), sha256_update(absorbed, chunk))
    ELSE absorbed

\* variant: the file name is hashed in front of the content
cache_key_named(p) ==
    first16(hexdigest(iter_read(path_bytes[p], 0,
                                <<Run(IF p = "/tmp/riffroom/1_song.mp3" THEN 1 ELSE 2, 1)>>)))

\* the value of CacheManager.get_cache_key(file_path)
cache_key(p) == first16(hexdigest(iter_read(path_bytes[p], 0, << >>)))

\* the value of DemucsProcessor._get_file_hash(file_path)
file_hash(p) == first16(hexdigest(while_read(path_bytes[p], 0, << >>)))

HashOps == {"get_cache_key", "_get_file_hash"}

\* one fingerprint call: the path asked, the bytes read, the key returned
HashCall(op, p, key) ==
    /\ ncalls < MaxCalls
    /\ ncalls' = ncalls + 1
    /\ ret' = [op |-> op, key |-> 0, val |-> p, arts |-> {},
               size |-> RunLen(path_bytes[p]), count |-> 0, digest |-> key, at |-> now,
               io |-> "none", msg |-> NoMsg]
    /\ UNCHANGED <<path_bytes, cycle, cache_dir, suspended, threads>>
    /\ UNCHANGED cacheFrame
    /\ UNCHANGED jobState

get_cache_key(p) == HashCall("get_cache_key", p, cache_key(p))

_get_file_hash(p) == HashCall("_get_file_hash", p, file_hash(p))

\* process_audio writes the payload of an upload to its temporary path
write_file(p, content) ==
    /\ ncalls < MaxCalls
    /\ ncalls' = ncalls + 1
    /\ ret' = [op |-> "write", key |-> 0, val |-> p, arts |-> {},
               size |-> RunLen(content), count |-> 0, digest |-> << >>, at |-> now,
               io |-> "none", msg |-> NoMsg]
    /\ path_bytes' = [path_bytes EXCEPT ![p] = content]
    /\ UNCHANGED <<cycle, cache_dir, suspended, threads>>
    /\ UNCHANGED cacheFrame
    /\ UNCHANGED jobState

HashNext ==
    \/ \E p \in Paths, content \in Contents : write_file(p, content)
    \/ \E p \in Paths : get_cache_key(p)
    \/ \E p \in Paths : _get_file_hash(p)

HashSpec == Init /\ [][HashNext]_vars

\* ----------------------------------------------------------- observations
AllFull(f) == \A s \in stem_types : files[f][s] = "full"

TerminalTypes == {"complete", "error"}
CountOf(seq, types) == Cardinality({i \in DOMAIN seq : seq[i].type \in types})
IsProgress(m) == m.type = "progress"
ProgressOf(seq) == SelectSeq(seq, IsProgress)

\* a is b with some elements left out
RECURSIVE IsSubseq(_, _)
IsSubseq(a, b) ==
    IF a = <<>> THEN TRUE
    ELSE IF b = <<>> THEN FALSE
    ELSE IF Head(a) = Head(b) THEN IsSubseq(Tail(a), Tail(b))
    ELSE IsSubseq(a, Tail(b))

NonDecreasing(seq) ==
    \A i, j \in DOMAIN seq : i < j => seq[i].progress <= seq[j].progress

\* ------------------------------------------------------------------ claims

\* C1: a reader that reports the entry of a fingerprint as present (the
\* _check_cache of a job hits) finds every required stem fully written.
C1_ReaderSeesOnlyCompleteEntries ==
    [][\A c \in Clients :
          (cacheCheck[c] = "none" /\ cacheCheck'[c] = "hit") => AllFull(fp[c])]_vars

\* C2: a job that ends Cancelled (process_song raised CancellationError) has
\* written no stem file under its fingerprint.
C2_CancelledJobWritesNoStem ==
    \A c \in Clients : pc[c] = "cancelled" => wrote[c] = 0

\* C2 witness: a job cancelled at the checkpoint after the separation
C2_Witness ==
    \E c \in Clients : pc[c] = "cancelled" /\ dispatched[c] /\ wrote[c] = 0

\* C3: when the background task has ended (completed, failed, cancelled or
\* with an unexpected exception), or the upload was rejected, the temporary
\* input file does not exist, and it is never removed more than once.
C3_TempFileRemovedOnEveryExit ==
    \A c \in Clients :
        /\ unlinks[c] <= 1
        /\ pc[c] \in Terminal \cup {"rejected"} => temp[c] # "present"
        /\ pc[c] \in Terminal => temp[c] = "removed" /\ unlinks[c] = 1

\* C3 witness: a task ended by an exception no handler catches, and an
\* upload rejected by the audio validation, both with the file removed
C3_Witness ==
    /\ \E c \in Clients : pc[c] = "crashed" /\ temp[c] = "removed"
    /\ \E c \in Clients : pc[c] = "rejected" /\ temp[c] = "removed"

\* C4: a job whose background task has ended has emitted exactly one
\* terminal event (complete or error) toward the Progress Channel.
C4_ExactlyOneTerminalEvent ==
    \A c \in Clients :
        pc[c] \in Terminal => CountOf(emitted[c], TerminalTypes) = 1

\* C5: on a subscriber's transport no progress event follows the terminal
\* event (complete or error) of the job.
C5_NoProgressAfterTerminal ==
    \A c \in Clients : \A i, j \in DOMAIN sent[c] :
        (i < j /\ sent[c][i].type \in TerminalTypes) => sent[c][j].type # "progress"

\* C6: the progress events on a subscriber's transport are in the order the
\* job produced them, so their percentages are non-decreasing.
C6_ProgressInProductionOrder ==
    \A c \in Clients :
        /\ IsSubseq(ProgressOf(sent[c]), ProgressOf(emitted[c]))
        /\ NonDecreasing(ProgressOf(sent[c]))

\* C6 witness: a subscriber that received 10, 20, 80 and 100
C6_Witness ==
    \E c \in Clients : Len(ProgressOf(sent[c])) = 4

\* C7: a job that checks the cache while a complete entry exists for its
\* fingerprint hits; a job that hit never has the compute stage dispatched
\* and emits progress 100 "Loaded from cache", then the complete event with
\* the four cached stem paths.
C7_CacheHitSkipsCompute ==
    /\ [][\A c \in Clients :
             (cacheCheck[c] = "none" /\ cacheCheck'[c] # "none" /\ AllFull(fp[c]))
                 => cacheCheck'[c] = "hit"]_vars
    /\ [](\A c \in Clients :
             cacheCheck[c] = "hit" =>
                 /\ ~dispatched[c]
                 /\ pc[c] = "completed"
                 /\ emitted[c] = <<ProgressMsg(100, "Loaded from cache"),
                                   CompleteMsg([s \in stem_types |-> <<fp[c], s>>])>>)

\* C7 witness: a job completed from a complete cached entry
C7_Witness ==
    \E c \in Clients :
        cacheCheck[c] = "hit" /\ AllFull(fp[c]) /\ pc[c] = "completed" /\ wrote[c] = 0

\* C8 as stated: a job whose cancellation was accepted before the compute
\* stage was dispatched ends Cancelled, with no dispatch, no cache write and
\* no complete event.
C8_EarlyCancelEndsCancelled ==
    [][\A c \in Clients :
          (flag[c] /\ ~dispatched[c] /\ pc[c] \notin Terminal /\ pc'[c] \in Terminal)
              => /\ pc'[c] = "cancelled"
                 /\ ~dispatched'[c]
                 /\ wrote'[c] = 0
                 /\ CountOf(emitted'[c], {"complete"}) = 0]_vars

\* C8 amended: once a cancellation is accepted before the dispatch, the
\* compute stage is never dispatched and the job writes nothing; if moreover
\* the job's cache check misses, the job ends Cancelled and no complete
\* event is sent.
C8_EarlyCancelNeverDispatches ==
    /\ [][\A c \in Clients :
             (flag[c] /\ ~dispatched[c]) =>
                 /\ ~dispatched'[c]
                 /\ wrote'[c] = 0
                 /\ (cacheCheck[c] = "none" /\ cacheCheck'[c] = "miss")
                        => pc'[c] = "cancelled"]_vars
    /\ [](\A c \in Clients :
             (cacheCheck[c] = "miss" /\ ~dispatched[c]) =>
                 /\ pc[c] = "cancelled"
                 /\ wrote[c] = 0
                 /\ CountOf(emitted[c], {"complete"}) = 0)

\* C8 witness: a cancel accepted before the dispatch, a cache miss, Cancelled
C8_Witness ==
    \E c \in Clients :
        flag[c] /\ cacheCheck[c] = "miss" /\ ~dispatched[c] /\ pc[c] = "cancelled"

\* C9: a cancellation request for a client id whose job is already terminal
\* (terminal event sent), or under which no job was created, answers
\* "not found" and changes no state.
C9_CancelOfTerminalJobNotFound ==
    [][\A c \in Clients :
          (/\ cancels' = cancels + 1
           /\ cancel_result'.client = c
           /\ pc[c] \in {"completed", "cancelled", "failed",
                         "new", "validating", "rejected"})
              => /\ cancel_result'.status = "not_found"
                 /\ flag' = flag
                 /\ _cancellation_events' = _cancellation_events]_vars

\* C10: the event emitted for a cancelled job is never of kind "error".
C10_CancellationHasOwnKind ==
    \A c \in Clients :
        pc[c] = "cancelled" => CountOf(emitted[c], {"error"}) = 0

\* ------------------------------------------------------- CacheManager claims
\* C11: after every completed CacheManager.set call, whatever the cache held
\* before and whatever directory was stored, the bytes of all entries under
\* the cache root add up to at most max_size_bytes.
C11_SetKeepsTotalUnderCeiling ==
    ret.op = "set" => total_size_bytes(cache_dir) <= max_size_bytes

\* a set that had to evict: the stored entry itself went, others stayed
C11_Witness ==
    /\ ret.op = "set"
    /\ ret.key \notin DOMAIN cache_dir
    /\ cache_dir # NoEntries
    /\ total_size_bytes(cache_dir) > 0

\* the keys a set call removed by eviction (an overwritten entry is not one)
Evicted(key) == (DOMAIN cache_dir \cup {key}) \ DOMAIN cache_dir'
\* time of the last set or get hit of an entry as the set call of `key` ends
LastAccess(key, k) == IF k = key THEN now ELSE cache_dir[k].accessed

\* C12: a set call that evicts removes least-recently-accessed entries first,
\* set and get hit both counting as an access: no evicted entry was accessed
\* later than a surviving one.  In particular, under a ceiling of 10 MiB with
\* A and B of 4 MiB stored in that order and A read afterwards, storing C of
\* 4 MiB evicts B and keeps A and C.
C12_EvictsLeastRecentlyAccessedFirst ==
    [][(ret'.op = "set" /\ ncalls' = ncalls + 1) =>
         LET key == ret'.key IN
         /\ \A e \in Evicted(key), k \in DOMAIN cache_dir' :
               LastAccess(key, e) <= LastAccess(key, k)
         /\ ( /\ DOMAIN cache_dir = {1, 2} /\ key = 3
              /\ \A k \in {1, 2} : dir_size(cache_dir[k]) = 4 * MiB
              /\ cache_dir[2].accessed < cache_dir[1].accessed
              /\ cache_dir[1].accessed < now
              /\ ret'.size = 4 * MiB )
            => DOMAIN cache_dir' = {1, 3}
      ]_vars

\* C13: cache round-trip: for every key, every complete source directory and
\* every prior cache state, once set(key, dir) has returned, exists(key) is
\* true and get(key) returns the key's directory holding exactly the files
\* named in dir.  (Checked over the source directories that fit under
\* max_size_bytes on their own: a violation there is a violation of the claim.)
C13_SetThenExistsAndGet ==
    [][(/\ ret'.op = "set" /\ ncalls' = ncalls + 1
        /\ ret'.arts = stem_types
        /\ ret'.size <= max_size_bytes) =>
         /\ exists_result(cache_dir', ret'.key)
         /\ get_result(cache_dir', ret'.key) = "path"
         /\ DOMAIN cache_dir'[ret'.key].files = ret'.arts
      ]_vars

\* an entry directory that holds every required artifact
IsComplete(d, key) == key \in DOMAIN d /\ stem_types \subseteq DOMAIN d[key].files

\* C14 as stated: exists(key) answers true if and only if every required
\* artifact is present under the key's directory, and get(key) returns the
\* directory only when the entry is complete.
C14_ExistsIffComplete ==
    /\ ret.op = "exists" => (ret.val = "true" <=> IsComplete(cache_dir, ret.key))
    /\ ret.op = "get" => (ret.val = "path" <=> IsComplete(cache_dir, ret.key))

\* C14 amended: exists(key) answers true if and only if a directory for the
\* key exists under the cache root, whatever it contains, and get(key)
\* returns the directory exactly when it exists, with the files it has.
C14_ExistsIffDirectoryExists ==
    /\ ret.op = "exists" => (ret.val = "true" <=> ret.key \in DOMAIN cache_dir)
    /\ ret.op = "get" =>
         /\ ret.val = "path" <=> ret.key \in DOMAIN cache_dir
         /\ ret.val = "path" => ret.arts = DOMAIN cache_dir[ret.key].files

\* exists answered true for a directory that lacks stems
C14_Witness ==
    /\ ret.op = "exists"
    /\ ret.val = "true"
    /\ ~IsComplete(cache_dir, ret.key)

\* ------------------------------------------------------------ job path claims
\* bytes of one saved stem of content f (longer audio, larger stems)
StemBytes(f) == (f + 1) * MiB

RECURSIVE JobCacheBytes(_)
\* bytes of the finished stem files under the cache root of the job path
JobCacheBytes(pairs) ==
    IF pairs = {} THEN 0
    ELSE LET p == CHOOSE x \in pairs : TRUE
         IN (IF files[p[1]][p[2]] = "full" THEN StemBytes(p[1]) ELSE 0)
            + JobCacheBytes(pairs \ {p})

\* C15: a job that completes on the cache-miss path stores its stems through
\* the cache store's put, so that after any sequence of successfully
\* completed jobs the entries under the cache root add up to at most the
\* configured ceiling.
C15_JobPathEnforcesCeiling ==
    (/\ \A c \in Clients : pc[c] \in {"new", "rejected", "completed"}
     /\ \E c \in Clients : pc[c] = "completed")
    => JobCacheBytes(Fingerprints \X stem_types) <= max_size_bytes

\* C16: on the cache-miss path all four stems are in the cache before the
\* job's progress 100 "Complete" event and its complete event are emitted:
\* at the moment either is emitted the entry of the job's fingerprint is
\* complete.
C16_StemsWrittenBeforeCompleteEvents ==
    [][\A c \in Clients :
         (/\ cacheCheck[c] = "miss"
          /\ Len(emitted'[c]) > Len(emitted[c])
          /\ \E i \in Len(emitted[c]) + 1 .. Len(emitted'[c]) :
                \/ emitted'[c][i].type = "complete"
                \/ emitted'[c][i] = ProgressMsg(100, "Complete"))
         => AllFull(fp[c]) /\ AllFull(fp[c])'
      ]_vars

Last(seq) == seq[Len(seq)]

\* C17: when the compute stage raises, the job ends Failed: an error event
\* with the message of the underlying cause goes to the job's subscriber, no
\* complete event is sent, no stem is saved and the temporary input file is
\* removed.
C17_ComputeFailureEndsFailed ==
    /\ [][\A c \in Clients :
            (pc[c] = "sep_fail" /\ pc'[c] # "sep_fail") =>
               /\ pc'[c] = "failed"
               /\ exc[c] \in SeparationErrors
               /\ emitted'[c] =
                    Append(emitted[c], ErrorMsg("Stem separation failed", exc[c]))
               /\ (active_connections[c] # 0 /\ faults' = faults) =>
                     sent'[c] =
                       Append(sent[c], ErrorMsg("Stem separation failed", exc[c]))
               /\ temp'[c] = "removed"
         ]_vars
    /\ [](\A c \in Clients :
            (pc[c] \in {"sep_fail", "failed"} /\ exc[c] \in SeparationErrors) =>
               /\ wrote[c] = 0
               /\ CountOf(emitted[c], {"complete"}) = 0
               /\ CountOf(sent[c], {"complete"}) = 0)

\* a subscriber received the error event of a job whose separation raised
C17_Witness ==
    \E c \in Clients :
       /\ pc[c] = "failed"
       /\ exc[c] = "CUDA out of memory"
       /\ sent[c] # <<>>
       /\ Last(sent[c]) = ErrorMsg("Stem separation failed", "CUDA out of memory")
       /\ temp[c] = "removed"

\* C18: transport failures never abort a job: whatever the subscriber does
\* (absent, disconnecting, failing on send), the job reaches the terminal
\* state and leaves the cache contents it would with a healthy subscriber; a
\* send failure is never raised into the job.  Every terminal state other
\* than Completed has a cause that is not the transport, a step whose send
\* fails changes the job exactly as announced and the cache not at all.
C18_TransportFailureNeverAbortsJob ==
    /\ [](\A c \in Clients :
            /\ pc[c] = "crashed" => exc[c] \in {"OSError: read", "OSError: mkdir"}
            /\ pc[c] = "failed" => exc[c] \in SeparationErrors \cup {"OSError: save"}
            /\ pc[c] = "cancelled" => flag[c]
            /\ (pc[c] = "completed" /\ cacheCheck[c] = "miss") =>
                  wrote[c] = Len(StemOrder))
    /\ [][\A c \in Clients :
            (active_connections[c] # 0 /\ active_connections'[c] = 0
             /\ faults' = faults + 1) =>
               /\ files' = files
               /\ pc'[c] # pc[c] =>
                    pc'[c] = CASE Last(emitted'[c]).type = "complete" -> "completed"
                               [] Last(emitted'[c]).status = "Processing cancelled"
                                    -> "cancelled"
                               [] OTHER -> "failed"
         ]_vars

\* a job completed on the cache-miss path although a send to its subscriber
\* failed and unregistered it
C18_Witness ==
    \E c \in Clients :
       /\ pc[c] = "completed"
       /\ cacheCheck[c] = "miss"
       /\ wrote[c] = Len(StemOrder)
       /\ faults = 1
       /\ nconn = 1 /\ active_connections[c] = 0
       /\ Len(sent[c]) < Len(emitted[c])
       /\ \A d \in Clients : exc[d] = "" /\ pc[d] # "rejected"

\* ------------------------------------------------- ConnectionManager claims
\* C19: for each of send_progress, send_completion and send_error, when the
\* registered subscriber's transport fails on the send, the call returns
\* without error, the subscriber is afterwards in neither the subscriber map
\* nor the timestamp map, and the event is dropped: it is never retried or
\* delivered later, so every event reaches a transport at most once (a
\* transport only ever receives the message of the call in progress).
C19_FailedSendUnregistersAndDrops ==
    /\ [][(ret'.op \in SendOps /\ ncalls' = ncalls + 1 /\ ret'.io = "failed") =>
            /\ ret'.val = "returned"
            /\ active_connections'[ret'.key] = 0
            /\ connection_timestamps'[ret'.key] = NoTs
            /\ sent' = sent
         ]_vars
    /\ [][sent' # sent =>
            /\ ncalls' = ncalls + 1
            /\ \/ /\ ret'.op \in SendOps /\ ret'.io = "ok"
                  /\ sent' = [sent EXCEPT ![ret'.key] = Append(@, ret'.msg)]
               \/ /\ ret'.op = "broadcast"
                  /\ \A c \in Clients :
                        sent'[c] \in {sent[c], Append(sent[c], ret'.msg)}
         ]_vars

\* a send_error failed on the transport of a registered subscriber
C19_Witness ==
    /\ ret.op = "send_error"
    /\ ret.io = "failed"
    /\ active_connections[ret.key] = 0
    /\ nconn > 0

\* C20: a send_progress, send_completion or send_error addressed to a client
\* id without a registered subscriber is a silent no-op: nothing is raised,
\* the subscriber map and the timestamp map stay as they are, and the event
\* is not kept for later (registering under that id delivers nothing).
C20_SendToUnregisteredIsNoOp ==
    /\ [][(ret'.op \in SendOps /\ ncalls' = ncalls + 1
           /\ active_connections[ret'.key] = 0) =>
            /\ ret'.val = "returned"
            /\ ret'.io = "none"
            /\ UNCHANGED <<active_connections, connection_timestamps, sent>>
         ]_vars
    /\ [][(ret'.op = "connect" /\ ncalls' = ncalls + 1) => sent' = sent]_vars

\* a send_progress went to an id without a subscriber while another id was
\* registered: nothing was written and the maps hold the other id only
C20_Witness ==
    /\ ret.op = "send_progress"
    /\ ret.io = "none"
    /\ active_connections[ret.key] = 0
    /\ connection_timestamps[ret.key] = NoTs
    /\ sent[ret.key] = <<>>
    /\ \E d \in Clients : active_connections[d] # 0 /\ connection_timestamps[d] # NoTs

\* -------------------------------------------------------------- sweep claims
AnyRegistered == \E c \in Clients : active_connections[c] # 0

\* C21: every subscriber whose last-activity timestamp is older than the idle
\* threshold when a sweep cycle runs is out of the active subscriber set when
\* the cycle ends, without an explicit disconnect; and while a subscriber is
\* registered, a next sweep cycle always eventually runs.
C21_SweepRemovesStaleAndRecurs ==
    /\ [][cycle' # cycle =>
            \A c \in Clients :
               (connection_timestamps[c] # NoTs
                /\ now - connection_timestamps[c] > stale_timeout)
               => active_connections'[c] = 0
         ]_vars
    /\ \A b \in {0, 1} : (AnyRegistered /\ cycle = b) ~> (cycle # b)

\* after the last call, a connect, the subscriber went without any call
C21_Witness ==
    /\ ret.op = "connect"
    /\ active_connections[ret.key] = 0
    /\ connection_timestamps[ret.key] = NoTs
    /\ now = 2 * stale_timeout

\* C22: sweep lifecycle: no sweep task exists before the first registration;
\* whenever a subscriber is registered exactly one sweep task is active; a
\* cycle that finds no subscriber ends the task, and the next registration
\* starts a new one.
C22_SweepTaskLifecycle ==
    /\ [](nconn = 0 => (sweepers = 0 /\ _cleanup_task = "none"))
    /\ [](AnyRegistered => (sweepers = 1 /\ _cleanup_task = "sleeping"))
    /\ [](sweepers <= 1)
    /\ [][(cycle' # cycle /\ ~AnyRegistered') =>
            (sweepers' = 0 /\ _cleanup_task' = "done")]_vars
    /\ [][(nconn' = nconn + 1 /\ _cleanup_task = "done") =>
            (sweepers' = 1 /\ _cleanup_task' = "sleeping")]_vars

\* a second sweep task runs: the first one ended, a registration came later
C22_Witness ==
    /\ AnyRegistered
    /\ nconn = 2
    /\ sweepers = 1
    /\ cycle = 1
    /\ ret.op = "connect"

\* ------------------------------------------------------------ upload claims
\* the step is the first part of process_audio for client c
IsUploadOf(c) == uploaded = c - 1 /\ uploaded' = c

\* C23: an upload with an unsupported media type or more than 100 MiB of
\* payload is rejected before a temporary file is written, a cancellation
\* flag registered or a background task created; an upload failing the audio
\* validation is rejected with its temporary file removed and no job tracked;
\* a payload of exactly 100 MiB passes the size check.
C23_RejectedUploadsLeaveNothing ==
    /\ [][\A c \in Clients :
            (IsUploadOf(c)
             /\ (upload_result'.ctype \notin AllowedTypes
                 \/ upload_result'.size > MAX_FILE_SIZE))
            => /\ upload_result'.client = c
               /\ upload_result'.status \in {400, 413}
               /\ pc'[c] = "rejected"
               /\ temp'[c] = "none" /\ unlinks'[c] = 0
               /\ UNCHANGED <<_cancellation_events, _processing_tasks, ready,
                              flag>>
         ]_vars
    /\ [][\A c \in Clients :
            (pc[c] = "validating" /\ pc'[c] = "rejected")
            => /\ temp[c] = "present" /\ temp'[c] = "removed"
               /\ UNCHANGED <<_cancellation_events, _processing_tasks, ready>>
         ]_vars
    /\ [](\A c \in Clients :
            pc[c] = "rejected"
            => /\ temp[c] # "present"
               /\ c \notin _cancellation_events
               /\ c \notin _processing_tasks
               /\ \A i \in DOMAIN ready : ready[i] # TaskItem(c))
    /\ [][\A c \in Clients :
            (IsUploadOf(c)
             /\ upload_result'.ctype \in AllowedTypes
             /\ upload_result'.size = MAX_FILE_SIZE)
            => upload_result'.status \notin {400, 413}
         ]_vars

\* the first upload, of exactly 100 MiB, failed the audio validation and the
\* second one was turned down for its size
C23_Witness ==
    /\ pc[1] = "rejected" /\ temp[1] = "removed" /\ unlinks[1] = 1 /\ faults = 0
    /\ upload_result = Upload(2, "audio/mpeg", MAX_FILE_SIZE + 1, 413)
    /\ pc[2] = "rejected" /\ temp[2] = "none"
    /\ _cancellation_events = {} /\ _processing_tasks = {}

\* ------------------------------------------------------ cache frame claims
\* the step is a call of the CacheManager method op
IsCall(op) == ret'.op = op /\ ncalls' = ncalls + 1

\* C24: get never changes artifacts: a hit changes only the timestamps of the
\* entry read (its directory is touched) and leaves its files and every other
\* entry, files and timestamps, as they were; a miss changes and creates
\* nothing.
C24_GetChangesOnlyTimestamp ==
    [][IsCall("get") =>
         LET key == ret'.key IN
         /\ DOMAIN cache_dir' = DOMAIN cache_dir
         /\ \A k \in DOMAIN cache_dir :
               /\ cache_dir'[k].files = cache_dir[k].files
               /\ k # key => cache_dir'[k] = cache_dir[k]
         /\ key \in DOMAIN cache_dir =>
               /\ ret'.val = "path"
               /\ cache_dir'[key].atime = now
               /\ cache_dir'[key].mtime = now
         /\ key \notin DOMAIN cache_dir =>
               (ret'.val = "none" /\ cache_dir' = cache_dir)
      ]_vars

\* a hit on one of two entries, a day after both were stored
C24_Witness ==
    /\ ret.op = "get" /\ ret.val = "path"
    /\ Cardinality(DOMAIN cache_dir) = 2
    /\ cache_dir[ret.key].atime = now
    /\ \E k \in DOMAIN cache_dir : cache_dir[k].accessed < now
    /\ \A k \in DOMAIN cache_dir : cache_dir[k].files # << >>

\* C26: cleanup_old(h) removes exactly the entries whose last access (stored
\* by set or hit by get) lies more than h days back and returns their number,
\* whatever the size ceiling; an entry accessed within the horizon is never
\* pruned.
C26_PrunesExactlyOldAccesses ==
    [][IsCall("cleanup_old") =>
         LET h == ret'.key
             aged == {k \in DOMAIN cache_dir :
                         now - cache_dir[k].accessed > h * SecondsPerDay}
         IN
         /\ DOMAIN cache_dir' = DOMAIN cache_dir \ aged
         /\ ret'.count = Cardinality(aged)
         /\ \A k \in DOMAIN cache_dir' : cache_dir'[k] = cache_dir[k]
      ]_vars

\* C27: remove(f) returns true exactly when an entry of f was present;
\* afterwards exists(f) is false and every other entry is unchanged; a second
\* remove(f) returns false and changes nothing.
C27_RemoveDeletesOnlyItsEntry ==
    /\ [][IsCall("remove") =>
            LET key == ret'.key IN
            /\ ret'.val = "true" <=> key \in DOMAIN cache_dir
            /\ ~exists_result(cache_dir', key)
            /\ DOMAIN cache_dir' = DOMAIN cache_dir \ {key}
            /\ \A k \in DOMAIN cache_dir' : cache_dir'[k] = cache_dir[k]
         ]_vars
    /\ [][(ret.op = "remove" /\ IsCall("exists") /\ ret'.key = ret.key)
            => ret'.val = "false"]_vars
    /\ [][(ret.op = "remove" /\ IsCall("remove") /\ ret'.key = ret.key)
            => (ret'.val = "false" /\ cache_dir' = cache_dir)]_vars

\* the second of two removes of a key, another entry still in place
C27_Witness ==
    /\ ret.op = "remove" /\ ret.val = "false"
    /\ ncalls = 4
    /\ DOMAIN cache_dir # {}
    /\ ret.key \notin DOMAIN cache_dir
    /\ ret.key < 3

\* ---------------------------------------------------------- broadcast claim
\* C25: with no registration change during the call, broadcast(m) attempts
\* the delivery of m to every registered subscriber, unregisters exactly the
\* subscribers whose send failed and leaves every subscriber whose send
\* succeeded registered.
C25_BroadcastUnregistersExactlyFailed ==
    [][IsCall("broadcast") =>
         /\ ret'.arts = {c \in Clients : active_connections[c] # 0}
         /\ \A c \in Clients :
               LET delivered == sent'[c] = Append(sent[c], ret'.msg)
                   failed == c \in ret'.arts /\ sent'[c] = sent[c]
               IN
               /\ c \in ret'.arts => (delivered \/ failed)
               /\ c \notin ret'.arts => UNCHANGED <<sent[c], active_connections[c]>>
               /\ failed => (active_connections'[c] = 0
                             /\ connection_timestamps'[c] = NoTs)
               /\ delivered => (active_connections'[c] = active_connections[c]
                                /\ connection_timestamps'[c] = connection_timestamps[c])
      ]_vars

\* a broadcast to two subscribers reached one and lost the other
C25_Witness ==
    /\ ret.op = "broadcast" /\ ret.arts = {1, 2} /\ ret.io = "failed"
    /\ \E c \in Clients :
          /\ active_connections[c] = 0 /\ sent[c] = << >>
          /\ \A d \in Clients \ {c} :
                active_connections[d] # 0 /\ sent[d] = <<BroadcastMsg>>

\* -------------------------------------------------------- fingerprint claim
\* C28: the fingerprint is a function of the bytes of the file and of nothing
\* else: files with the same bytes get the same 16-character key whatever
\* their name or path, get_cache_key and _get_file_hash return the same key
\* for the same file, and computing a key changes no state.
C28_FingerprintOfBytesOnly ==
    /\ [][(ret'.op \in HashOps /\ ncalls' = ncalls + 1) =>
            /\ Len(ret'.digest) = 4
            /\ \A i \in 1..4 : ret'.digest[i] \in 0..65535
            /\ UNCHANGED <<path_bytes, cache_dir, now, active_connections,
                           connection_timestamps, sent>>
            /\ UNCHANGED jobState
            /\ \A p \in Paths :
                  path_bytes[p] = path_bytes[ret'.val] =>
                     (cache_key(p) = ret'.digest /\ file_hash(p) = ret'.digest)
         ]_vars
    /\ [][(/\ ret.op \in HashOps /\ ret'.op \in HashOps /\ ncalls' = ncalls + 1
           /\ path_bytes[ret.val] = path_bytes[ret'.val])
            => ret'.digest = ret.digest]_vars

\* two files of one block and a byte with the same bytes under two names:
\* the key of the first by get_cache_key, then of the second by _get_file_hash
C28_Witness ==
    /\ ncalls = 4
    /\ ret.op = "_get_file_hash" /\ ret.val = "/tmp/riffroom/2_copy.wav"
    /\ \A p \in Paths : path_bytes[p] = <<Run(7, BlockSize), Run(9, 1)>>
    /\ ret.digest = cache_key("/tmp/riffroom/1_song.mp3")
    /\ ret.digest # first16(hexdigest(<<Run(7, BlockSize + 1)>>))

\* ------------------------------------------------- late cancellation claims
\* the events 80, 100 and complete, which only a job that saves stems emits
AfterComputeEvents(c) ==
    {i \in DOMAIN emitted[c] :
        \/ emitted[c][i].type = "complete"
        \/ (emitted[c][i].type = "progress" /\ emitted[c][i].progress \in {80, 100})}

\* C29: when the cancellation flag of a job is set while its compute call
\* runs (after the dispatch, before the checkpoint that follows the return of
\* the call), the call still runs to its end and its result is discarded: no
\* stem is saved, no progress 80 or 100 and no complete event is emitted, and
\* the cancellation is reported instead.
C29_LateCancelDiscardsResult ==
    /\ [](\A c \in Clients :
            pc[c] = "separating" =>
               \E e \in SeparationErrors : ENABLED _run_separation(c, TRUE, e))
    /\ [][\A c \in Clients :
            (pc[c] = "separating" /\ pc'[c] # pc[c])
            => pc'[c] \in {"sep_ok", "sep_fail"}]_vars
    /\ [][\A c \in Clients :
            (pc[c] = "sep_ok" /\ flag[c] /\ pc'[c] # pc[c])
            => /\ pc'[c] = "cancelled"
               /\ emitted'[c] = emitted[c] \o <<ErrorMsg("Processing cancelled", "")>>
               /\ UNCHANGED <<files, wrote, saveIdx>>
         ]_vars
    /\ [](\A c \in Clients :
            (dispatched[c] /\ pc[c] = "cancelled")
            => /\ wrote[c] = 0
               /\ AfterComputeEvents(c) = {}
               /\ emitted[c][Len(emitted[c])] = ErrorMsg("Processing cancelled", ""))

\* a job cancelled while its separation ran: dispatched, ended cancelled
C29_Witness ==
    \E c \in Clients :
       /\ dispatched[c] /\ flag[c] /\ pc[c] = "cancelled"
       /\ cancel_result = [client |-> c, status |-> "cancelled"]
       /\ Len(emitted[c]) = 3

\* C30: once the background task of a job has ended, whatever its outcome
\* (completed, failed, cancelled, unexpected exception), its cancellation
\* flag entry and its task-set entry are eventually removed; and the
\* cancellation-flag map never holds an id that has no background task.
C30_BookkeepingDiscarded ==
    /\ [](_cancellation_events \subseteq _processing_tasks)
    /\ \A c \in Clients :
          (pc[c] \in Terminal)
             ~> (c \notin _cancellation_events /\ c \notin _processing_tasks)

\* two jobs ended, one by an unexpected exception, and nothing is tracked
C30_Witness ==
    /\ \A c \in Clients : pc[c] \in Terminal
    /\ \E c \in Clients : pc[c] = "crashed"
    /\ _cancellation_events = {} /\ _processing_tasks = {}
    /\ ready = << >>

\* ------------------------------------------------------ staleness claims
\* C31: the sweep unregisters a subscriber only if no event of any kind
\* (progress, completion, error) was delivered to it within the idle
\* threshold: every successful delivery renews the last-activity timestamp.
C31_SweepSparesRecentDeliveries ==
    /\ [][(ret'.op \in SendOps /\ ncalls' = ncalls + 1 /\ ret'.io = "ok")
            => connection_timestamps'[ret'.key] = now]_vars
    /\ [][\A c \in Clients :
            (cycle' # cycle /\ active_connections[c] # 0
             /\ active_connections'[c] = 0)
            => ~(/\ ret.op \in SendOps /\ ret.key = c /\ ret.io = "ok"
                 /\ now - ret.at <= stale_timeout)
         ]_vars

\* ------------------------------------------------------- save failure claim
\* C32: when saving the stems fails after a successful compute, the job ends
\* Failed with an error event and no complete event, its fingerprint is not
\* visible as a complete entry, and every entry that was complete before the
\* job started is unchanged.
C32_SaveFailureLeavesNoEntry ==
    /\ [][\A c \in Clients :
            (pc[c] = "save_fail" /\ pc'[c] # "save_fail")
            => /\ pc'[c] = "failed"
               /\ emitted'[c][Len(emitted'[c])].type = "error"
               /\ CountOf(emitted'[c], {"complete"}) = 0
               /\ ~_check_cache(fp[c])'
         ]_vars
    /\ [][\A f \in Fingerprints :
            (AllFull(f) /\ \A c \in Clients :
                              fp[c] = f => cacheCheck[c] \in {"none", "hit"})
            => files'[f] = files[f]]_vars

\* ------------------------------------------------------ single-flight claim
\* C33: there is no single flight per fingerprint: a job resumed after its
\* hash whose cache check misses and whose flag is not set gets the compute
\* stage dispatched whatever other jobs with the same fingerprint are doing,
\* so two jobs with one fingerprint can both miss and both be separating at
\* the same time.
C33_NoSingleFlight ==
    /\ [](\A c \in Clients :
            (ready # << >> /\ Head(ready) = TaskItem(c) /\ pc[c] = "hash_ok")
            => ENABLED process_song_check(c, TRUE))
    /\ [][\A c \in Clients :
            (/\ ready # << >> /\ Head(ready) = TaskItem(c) /\ pc[c] = "hash_ok"
             /\ pc'[c] \notin {"hash_ok", "crashed"}
             /\ ~_check_cache(fp[c]) /\ ~flag[c])
            => (dispatched'[c] /\ pc'[c] = "separating")]_vars

\* two jobs with the same fingerprint, both missed, both separating
C33_Witness ==
    /\ fp[1] = fp[2]
    /\ \A c \in Clients :
          pc[c] = "separating" /\ cacheCheck[c] = "miss" /\ dispatched[c]

\* ------------------------------------------------------------ routing claim
\* C34: an event addressed to client c goes only to the transport registered
\* under c: the send never writes to the transport of another client and
\* never changes another client's registration or timestamp.
C34_SendTouchesOnlyItsClient ==
    [][(ret'.op \in SendOps /\ ncalls' = ncalls + 1) =>
         /\ \A d \in Clients \ {ret'.key} :
               /\ sent'[d] = sent[d]
               /\ active_connections'[d] = active_connections[d]
               /\ connection_timestamps'[d] = connection_timestamps[d]
         /\ sent'[ret'.key] \in {sent[ret'.key], Append(sent[ret'.key], ret'.msg)}
         /\ active_connections[ret'.key] = 0 => sent' = sent
      ]_vars

\* a completion delivered to client 2 while client 1 is registered and idle
C34_Witness ==
    /\ ret.op = "send_completion" /\ ret.key = 2 /\ ret.io = "ok"
    /\ sent[2] = <<ret.msg>> /\ sent[1] = << >>
    /\ active_connections[1] # 0 /\ active_connections[2] # 0

\* ------------------------------------------------------ stored-entry claim
\* C39: the eviction pass at the end of set(f, dir) never removes the entry f
\* it has just stored while another entry survives: the entry just stored
\* counts as the most recently used, whatever the timestamps of the source
\* directory.
C39_SetNeverEvictsItsOwnEntryFirst ==
    [][IsCall("set") =>
         (ret'.key \notin DOMAIN cache_dir' => DOMAIN cache_dir' = {})]_vars

\* ------------------------------------------------------ cache directory claim
\* the task of c has run cache_path.mkdir
PastMkdir(c) ==
    pc[c] \notin {"new", "rejected", "validating", "created", "hashing",
                  "hash_ok", "hash_fail"}

\* C40: a job that ends Cancelled or Failed leaves the directories under the
\* cache root as they were: every directory there is the directory of a job
\* past its mkdir that has ended neither Cancelled nor Failed.
C40_CancelledOrFailedLeavesNoDirectory ==
    \A f \in dirs :
       \E c \in Clients :
          fp[c] = f /\ PastMkdir(c) /\ pc[c] \notin {"cancelled", "failed"}

\* ------------------------------------------------------ concurrent set claim
\* C35: with two set calls running concurrently on one CacheManager, the
\* replace-publish-evict steps of different calls never overlap (at most one
\* thread is inside set), and the eviction pass of one call never removes an
\* entry that the other call is still copying into place.
C35_ConcurrentSetsNeverOverlap ==
    /\ [](Cardinality(InSet) <= 1)
    /\ [][\A t \in Threads, u \in Threads :
            (/\ t # u
             /\ threads[t].at = "enforce" /\ threads'[t].at = "idle"
             /\ threads[u].at \in Copying /\ threads[u].key \in DOMAIN cache_dir)
            => threads[u].key \in DOMAIN cache_dir']_vars

\* ------------------------------------------------ suspended-coroutine claims
\* C36: in every reachable state the client ids of active_connections are the
\* client ids of connection_timestamps, also when a disconnect of a client
\* runs while a send_progress to that client is suspended on its transport.
C36_MapsHoldTheSameIds ==
    \A c \in Clients : (active_connections[c] # 0) <=> (connection_timestamps[c] # NoTs)

\* a coroutine that worked on transport w of client c ends in this step
EndsOn(c, w) ==
    \E r \in suspended \ suspended' :
       \/ r.op \in {"endpoint", "send_progress"} /\ r.key = c /\ r.ws = w
       \/ r.op = "broadcast" /\ (<<c, w>> \in r.failed \/ (r.key = c /\ r.ws = w))

\* C37: when a client id is registered again with a new transport while an
\* older transport of the same id is still served, the end of the older
\* transport does not unregister the newer one: a registered transport is
\* removed only by its own disconnect, its own send failure, or staleness.
C37_OlderTransportSparesNewer ==
    [][\A c \in Clients :
          (active_connections[c] # 0 /\ active_connections'[c] = 0)
          => (cycle' # cycle \/ EndsOn(c, active_connections[c]))]_vars

\* a broadcast call ends in this step
BroadcastEnds ==
    /\ ret'.op = "broadcast"
    /\ Cardinality({r \in suspended' : r.op = "broadcast"})
          < Cardinality({r \in suspended : r.op = "broadcast"})

\* C38: broadcast completes without raising, and has sent to every subscriber
\* whose transport was registered before the call began and is registered
\* when it ends, also when a connect or disconnect of some client runs while
\* broadcast is suspended on one of its sends.
C38_BroadcastSurvivesRegistryChanges ==
    [][BroadcastEnds =>
          /\ ret'.val = "returned"
          /\ \A c \in Clients :
                (active_connections[c] # 0 /\ active_connections[c] <= ret'.count)
                => c \in ret'.arts]_vars

====
